---- MODULE Spec2Model ----
(***************************************************************************)
(* Attribute templates of the FreeRADIUS server (src/main/tmpl.c): the     *)
(* list/request resolver, the template cursor, the caster, the grammar     *)
(* parser and the printer, as a state machine whose actions are the public *)
(* functions of tmpl.c.                                                    *)
(***************************************************************************)
EXTENDS Integers, Sequences, FiniteSets, TLC

VARIABLES
    chain,      \* the number of requests in the parent chain of the graph
    cfg,        \* which packets the requests of the graph hold (REQUEST fields)
    shape,      \* the attributes held by every attribute list of the graph
    ndebug,     \* TRUE when the build compiles rad_assert() out (NDEBUG)
    op,         \* the function called last ("" before any call)
    args,       \* the arguments of that call
    context,    \* radius_request: *context after the call
    rcode,      \* the return value of the call
    vps,        \* radius_list: the returned VALUE_PAIR ** (as a location)
    vpt,        \* the template the cursor functions were called with
    cursor,     \* the vp_cursor_t of tmpl_cursor_init / tmpl_cursor_next
    vp,         \* the VALUE_PAIR * returned by the last cursor call
    err,        \* *err of tmpl_cursor_init
    fault,      \* TRUE once the process has died (SIGSEGV, failed assertion)
    yielded,    \* the non-NULL elements the cursor returned since its init
    tmpl,       \* the template handed to the caster
    out,        \* *out of tmpl_cast_to_vp and of tmpl_copy_vps
    text,       \* the text handed to the parser
    parts,      \* the parts of the grammar the text was put together from
    pvpt,       \* the template the parser wrote
    pos,        \* radius_list_name: *name after the call, as an offset
    buffer,     \* tmpl_prints: the text in the output buffer
    trace,      \* rlm_couchbase: what the last call did with its handle and objects
    stored,     \* rlm_couchbase: the document the store holds under the key
    written,    \* mod_accounting: the document handed to couchbase_set_key
    server,     \* mod_instantiate: inst->server and the writes that made it
    list_ctx    \* radius_list_ctx: the returned TALLOC_CTX *

\* The variables of the parser and of the printer, and the others.
pvars == <<text, parts, pvpt, pos, buffer>>
cvars == <<chain, cfg, shape, ndebug, context, vps, vpt, cursor, vp, err, fault,
           yielded, tmpl, out>>
\* The variables of rlm_couchbase.
bvars == <<trace, stored, written, server>>

vars == <<chain, cfg, shape, ndebug, op, args, context, rcode, vps, vpt, cursor, vp,
          err, fault, yielded, tmpl, out, text, parts, pvpt, pos, buffer, trace,
          stored, written, server, list_ctx>>

----------------------------------------------------------------------------
(* Bounds of the model *)

\* Requests in the parent chain, request 1 having no parent.
ChainLen == 3
\* Requests a cursor is opened on in SpecCursor.
CursorChain == 1
\* Longest attribute list in SpecCursor.
MaxLen == 3
\* Largest specific instance number [K] of a template.
MaxNum == 2
\* Longest literal text handed to the caster.
MaxText == 3
\* The longest quoted string given to tmpl_afrom_str.
MaxQuoted == 4
\* The longest raw server string of the configuration.
MaxRaw == 4
\* The size of the document buffer of mod_accounting (MAX_VALUE_SIZE), scaled
\* to the documents of the model and counted in elements.
MaxValueSize == 6
\* Longest verbatim name a template holds: sizeof(attr.fugly.name) - 1, scaled
\* to the texts of the model.
UnknownNameMax == 4

----------------------------------------------------------------------------
(* Sentinels of the headers tmpl.c is compiled against *)

TAG_ANY == -128
NUM_ANY == -2147483647 - 1
NUM_ALL == -2147483647

PAIR_LISTS == {"request", "reply", "control", "proxy-request", "proxy-reply",
               "coa", "coa-reply", "disconnect", "disconnect-reply"}
PAIR_LIST_UNKNOWN == "unknown"

REQUEST_REFS == {"outer", "current", "parent"}

PW_CODE_COA_REQUEST == "CoA-Request"
PW_CODE_DISCONNECT_REQUEST == "Disconnect-Request"
\* request_alloc_coa() leaves the code of the CoA packet unset until the
\* policy decides between the two.
PW_CODE_UNDEFINED == "Undefined"

----------------------------------------------------------------------------
(* The request graph *)

\* The requests of the graph: request 1 has no parent, request r + 1 has
\* parent r.
Requests == 1..chain

\* request->parent; 0 is NULL.
Parent(r) == r - 1

\* REQUEST fields that may be NULL.  request->packet, request->reply and
\* request->coa->proxy always exist.
Configs ==
    { c \in [proxy : BOOLEAN, proxy_reply : BOOLEAN, coa : BOOLEAN,
             coa_code : {PW_CODE_COA_REQUEST, PW_CODE_DISCONNECT_REQUEST,
                         PW_CODE_UNDEFINED},
             coa_reply : BOOLEAN] :
        /\ c.proxy_reply => c.proxy
        /\ ~c.coa => (c.coa_code = PW_CODE_UNDEFINED /\ ~c.coa_reply) }

\* A VALUE_PAIR ** : the head of the attribute list of one packet.
\* kind "list" is a list of the graph, "null" is NULL, "wild" is the address
\* of the vps member of a NULL packet.
Loc(r, s, f) == [kind |-> "list", req |-> r, sub |-> s, field |-> f]
NullLoc == [kind |-> "null", req |-> 0, sub |-> "", field |-> ""]
WildLoc == [kind |-> "wild", req |-> 0, sub |-> "", field |-> ""]

----------------------------------------------------------------------------
(* The dictionary and the attribute lists *)

DictAttrs == {"Tunnel-Type", "User-Name"}
has_tag(da) == da = "Tunnel-Type"
Tags == {1, 2}

\* The VALUE_PAIRs a list may hold (vp->da, vp->tag).
Pairs == { p \in [da : DictAttrs, tag : {0} \cup Tags] :
             IF has_tag(p.da) THEN p.tag \in Tags ELSE p.tag = 0 }

RECURSIVE SeqsUpTo(_, _)
SeqsUpTo(S, n) ==
    IF n = 0 THEN {<<>>}
    ELSE LET shorter == SeqsUpTo(S, n - 1)
         IN  shorter \cup { Append(s, x) : s \in { t \in shorter : Len(t) = n - 1 }, x \in S }

\* A VALUE_PAIR * : the idx-th element of the list at loc; idx 0 is NULL.
Elem(loc, i) == [loc |-> loc, idx |-> i]
NullVp == [loc |-> NullLoc, idx |-> 0]

\* The elements of the list at a location.  Every list of the graph holds
\* the attributes of shape; its elements are told apart by their location.
Contents(loc) == IF loc.kind = "list" THEN shape ELSE <<>>

\* vp->next within the list at loc; 0 is NULL.
NextIdx(loc, i) == IF i # 0 /\ i < Len(Contents(loc)) THEN i + 1 ELSE 0

----------------------------------------------------------------------------
(* radius_list, radius_request *)

\* radius_list without the test of the proxied packet's code.
radius_list_any_code(request, list) ==
    IF request = 0 THEN NullLoc
    ELSE CASE list = "request" -> Loc(request, "", "packet")
           [] list = "reply" -> Loc(request, "", "reply")
           [] list = "control" -> Loc(request, "", "config_items")
           [] list = "proxy-request" ->
                IF ~cfg.proxy THEN NullLoc ELSE Loc(request, "", "proxy")
           [] list = "proxy-reply" ->
                IF ~cfg.proxy THEN NullLoc
                ELSE IF cfg.proxy_reply THEN Loc(request, "", "proxy_reply")
                ELSE WildLoc
           [] list \in {"coa", "disconnect"} ->
                IF cfg.coa THEN Loc(request, "coa", "proxy") ELSE NullLoc
           [] list = "coa-reply" ->
                IF cfg.coa /\ cfg.coa_reply
                THEN Loc(request, "coa", "proxy_reply") ELSE NullLoc
           [] list = "disconnect-reply" ->
                IF cfg.coa /\ cfg.coa_reply
                THEN Loc(request, "coa", "proxy") ELSE NullLoc
           [] OTHER -> NullLoc

radius_list(request, list) ==
    IF request = 0 THEN NullLoc
    ELSE CASE list = "request" -> Loc(request, "", "packet")
           [] list = "reply" -> Loc(request, "", "reply")
           [] list = "control" -> Loc(request, "", "config_items")
           [] list = "proxy-request" ->
                IF ~cfg.proxy THEN NullLoc ELSE Loc(request, "", "proxy")
           [] list = "proxy-reply" ->
                IF ~cfg.proxy THEN NullLoc
                ELSE IF cfg.proxy_reply THEN Loc(request, "", "proxy_reply")
                ELSE WildLoc
           [] list = "coa" ->
                IF cfg.coa /\ cfg.coa_code = PW_CODE_COA_REQUEST
                THEN Loc(request, "coa", "proxy") ELSE NullLoc
           [] list = "coa-reply" ->
                IF cfg.coa /\ cfg.coa_code = PW_CODE_COA_REQUEST /\ cfg.coa_reply
                THEN Loc(request, "coa", "proxy_reply") ELSE NullLoc
           [] list = "disconnect" ->
                IF cfg.coa /\ cfg.coa_code = PW_CODE_DISCONNECT_REQUEST
                THEN Loc(request, "coa", "proxy") ELSE NullLoc
           [] list = "disconnect-reply" ->
                IF cfg.coa /\ cfg.coa_code = PW_CODE_DISCONNECT_REQUEST /\ cfg.coa_reply
                THEN Loc(request, "coa", "proxy") ELSE NullLoc
           [] OTHER -> NullLoc

\* A TALLOC_CTX *: a packet of the graph or a request, or NULL.
Packet(request, sub, field) == [kind |-> "packet", req |-> request, sub |-> sub, field |-> field]
RequestCtx(request) == [kind |-> "request", req |-> request, sub |-> "", field |-> ""]
NullCtx == [kind |-> "null", req |-> 0, sub |-> "", field |-> ""]

\* radius_list_ctx: the context of the list, NULL (NullCtx) when the packet
\* of the list is absent.
radius_list_ctx(request, list_name) ==
    IF request = 0 THEN NullCtx
    ELSE CASE list_name = "request" -> Packet(request, "", "packet")
           [] list_name = "reply" -> Packet(request, "", "reply")
           [] list_name = "control" -> RequestCtx(request)
           [] list_name = "proxy-request" ->
                IF cfg.proxy THEN Packet(request, "", "proxy") ELSE NullCtx
           [] list_name = "proxy-reply" ->
                IF cfg.proxy_reply THEN Packet(request, "", "proxy_reply") ELSE NullCtx
           [] list_name = "coa" ->
                IF ~cfg.coa THEN NullCtx
                ELSE IF cfg.coa_code # PW_CODE_COA_REQUEST THEN NullCtx
                ELSE Packet(request, "coa", "proxy")
           [] list_name = "coa-reply" ->
                IF ~cfg.coa THEN NullCtx
                ELSE IF cfg.coa_code # PW_CODE_COA_REQUEST THEN NullCtx
                ELSE IF cfg.coa_reply THEN Packet(request, "coa", "proxy_reply")
                ELSE NullCtx
           [] list_name = "disconnect" ->
                IF ~cfg.coa THEN NullCtx
                ELSE IF cfg.coa_code # PW_CODE_DISCONNECT_REQUEST THEN NullCtx
                ELSE Packet(request, "coa", "proxy")
           [] list_name = "disconnect-reply" ->
                IF ~cfg.coa THEN NullCtx
                ELSE IF cfg.coa_code # PW_CODE_DISCONNECT_REQUEST THEN NullCtx
                ELSE IF cfg.coa_reply THEN Packet(request, "coa", "proxy_reply")
                ELSE NullCtx
           [] OTHER -> NullCtx

\* radius_request following the parent links up to the outermost request.
radius_request_outermost(ctx, name) ==
    CASE name = "current" -> [rcode |-> 0, context |-> ctx]
      [] name \in {"parent", "outer"} ->
            IF Parent(ctx) = 0 THEN [rcode |-> -1, context |-> ctx]
            ELSE [rcode |-> 0, context |-> 1]
      [] OTHER -> [rcode |-> -1, context |-> ctx]

radius_request(ctx, name) ==
    CASE name = "current" -> [rcode |-> 0, context |-> ctx]
      [] name \in {"parent", "outer"} ->
            IF Parent(ctx) = 0 THEN [rcode |-> -1, context |-> ctx]
            ELSE [rcode |-> 0, context |-> Parent(ctx)]
      [] OTHER -> [rcode |-> -1, context |-> ctx]

----------------------------------------------------------------------------
(* The cursor library (lib/cursor.c) over the lists of the graph *)

\* fr_cursor_next_by_da's test of one element against (da, tag).
Match(p, da, tag) ==
    /\ p.da = da
    /\ (~has_tag(p.da) \/ tag = TAG_ANY \/ p.tag = tag)

\* A vp_cursor_t: first is the list, the other fields are elements of it.
ZeroCursor == [first |-> NullLoc, found |-> 0, current |-> 0, next |-> 0]

\* The VALUE_PAIR * a cursor stands on.
Current(c) == IF c.current = 0 THEN NullVp ELSE Elem(c.first, c.current)

fr_cursor_init(node) ==
    LET cur == IF Len(Contents(node)) > 0 THEN 1 ELSE 0
    IN  [first |-> node, found |-> 0, current |-> cur, next |-> NextIdx(node, cur)]

fr_cursor_update(c, i) ==
    IF i = 0 THEN [c EXCEPT !.next = 0, !.current = 0]
    ELSE [c EXCEPT !.next = NextIdx(c.first, i), !.current = i, !.found = i]

\* The cursor after the call; the element returned is the one it stands on.
fr_cursor_next_by_da(c, da, tag) ==
    LET start == IF c.found = 0 THEN c.current ELSE NextIdx(c.first, c.found)
        hits == IF start = 0 THEN {}
                ELSE { i \in start..Len(Contents(c.first)) :
                         Match(Contents(c.first)[i], da, tag) }
        i == IF hits = {} THEN 0 ELSE CHOOSE j \in hits : \A k \in hits : j <= k
    IN  fr_cursor_update(c, i)

fr_cursor_next(c) ==
    IF c.next = 0 THEN [c EXCEPT !.current = 0]
    ELSE [c EXCEPT !.current = c.next, !.next = NextIdx(c.first, c.next), !.found = 0]

----------------------------------------------------------------------------
(* Templates that name attributes or lists *)

Nums == {NUM_ANY, NUM_ALL} \cup 0..MaxNum

AttrTmpls ==
    { t \in [type : {"ATTR"}, request : REQUEST_REFS,
             list : PAIR_LISTS \cup {PAIR_LIST_UNKNOWN},
             da : DictAttrs, tag : {TAG_ANY} \cup Tags, num : Nums] :
        ~has_tag(t.da) => t.tag = TAG_ANY }

ListTmpls ==
    [type : {"LIST"}, request : REQUEST_REFS,
     list : PAIR_LISTS \cup {PAIR_LIST_UNKNOWN},
     da : {""}, tag : {0}, num : {0}]

CursorTmpls == AttrTmpls \cup ListTmpls

NoTmpl == [type |-> "", request |-> "", list |-> "", da |-> "", tag |-> 0, num |-> 0]

----------------------------------------------------------------------------
(* tmpl_cursor_init, tmpl_cursor_next *)

\* What a cursor call leaves: *err, the cursor, the returned element, and
\* whether the process died in the call.
CursorResult(e, c, v, f) == [err |-> e, cursor |-> c, vp |-> v, fault |-> f]

\* What reading the head of a list through a wild pointer can do.
WildReads == {"fault", "null"}

\* The loop of tmpl_cursor_init for a specific instance (and for NUM_ALL):
\* the cursor after the loop, and whether the loop left through "finish".
\* The loop with the instance number decremented before it is tested.
RECURSIVE NumLoopPreDecrement(_, _, _)
NumLoopPreDecrement(c, t, num) ==
    LET c2 == fr_cursor_next_by_da(c, t.da, t.tag)
    IN  IF c2.current = 0 THEN [cursor |-> c2, found |-> FALSE]
        ELSE IF num - 1 <= 0 THEN [cursor |-> c2, found |-> TRUE]
        ELSE NumLoopPreDecrement(c2, t, num - 1)

RECURSIVE NumLoop(_, _, _)
NumLoop(c, t, num) ==
    LET c2 == fr_cursor_next_by_da(c, t.da, t.tag)
    IN  IF c2.current = 0 THEN [cursor |-> c2, found |-> FALSE]
        ELSE IF num <= 0 THEN [cursor |-> c2, found |-> TRUE]
        ELSE NumLoop(c2, t, num - 1)

tmpl_cursor_init(request, t, wild) ==
    LET rr == radius_request(request, t.request)
        list == radius_list(rr.context, t.list)
    IN  IF rr.rcode < 0 THEN CursorResult(-3, ZeroCursor, NullVp, FALSE)
        ELSE IF list = NullLoc THEN CursorResult(-2, ZeroCursor, NullVp, FALSE)
        ELSE IF list.kind = "wild" /\ wild = "fault"
        THEN CursorResult(0, ZeroCursor, NullVp, TRUE)
        ELSE LET c0 == fr_cursor_init(list)
             IN  IF t.type = "ATTR"
                 THEN IF t.num = NUM_ANY
                      THEN LET c1 == fr_cursor_next_by_da(c0, t.da, t.tag)
                           IN  IF c1.current = 0
                               THEN CursorResult(-1, c1, NullVp, FALSE)
                               ELSE CursorResult(0, c1, Current(c1), FALSE)
                      ELSE LET l == NumLoop(c0, t, t.num)
                           IN  IF l.found
                               THEN CursorResult(0, l.cursor, Current(l.cursor), FALSE)
                               ELSE CursorResult(-1, l.cursor, NullVp, FALSE)
                 ELSE CursorResult(0, c0, Current(c0), FALSE)

\* tmpl_cursor_next stepping to the next element of the list, whatever it is.
tmpl_cursor_next_unfiltered(c, t) ==
    IF t.type = "ATTR" /\ t.num # NUM_ALL THEN [cursor |-> c, vp |-> NullVp]
    ELSE LET c2 == fr_cursor_next(c)
         IN  [cursor |-> c2, vp |-> Current(c2)]

\* tmpl_cursor_next without the test for NUM_ALL.
tmpl_cursor_next_always(c, t) ==
    IF t.type = "ATTR"
    THEN LET c2 == fr_cursor_next_by_da(c, t.da, t.tag)
         IN  [cursor |-> c2, vp |-> Current(c2)]
    ELSE LET c2 == fr_cursor_next(c)
         IN  [cursor |-> c2, vp |-> Current(c2)]

\* The cursor after the call and the element returned.
tmpl_cursor_next(c, t) ==
    IF t.type = "ATTR"
    THEN IF t.num # NUM_ALL THEN [cursor |-> c, vp |-> NullVp]
         ELSE LET c2 == fr_cursor_next_by_da(c, t.da, t.tag)
              IN  [cursor |-> c2, vp |-> Current(c2)]
    ELSE LET c2 == fr_cursor_next(c)
         IN  [cursor |-> c2, vp |-> Current(c2)]

----------------------------------------------------------------------------
(* The caster: literal texts, typed values, pairs allocated by a cast *)

Chars == {"1", "2", "3", "a"}
Digits == {"1", "2", "3"}
DigitVal(c) == CASE c = "1" -> 1 [] c = "2" -> 2 [] c = "3" -> 3 [] OTHER -> 0

Texts == SeqsUpTo(Chars, MaxText)

PW_TYPES == {"integer", "string"}
PW_TYPE_INVALID == "invalid"

\* A value_data_t; alloc is FALSE for a NULL pointer to one.
Value(n, str) == [alloc |-> TRUE, integer |-> n, strvalue |-> str]
NullValue == [alloc |-> FALSE, integer |-> 0, strvalue |-> <<>>]

\* A value_pair_tmpl_t of the caster: type, name, and the data.literal
\* member of its union (all-zero unless the type is DATA).
Tmpl(type, name) ==
    [type |-> type, name |-> name, data_type |-> PW_TYPE_INVALID,
     data_value |-> NullValue, data_length |-> 0]

\* The templates handed to the caster: every literal, and xlat and exec
\* strings, whose text the caster never reads.
CastTmpls ==
    { Tmpl("LITERAL", n) : n \in Texts }
    \cup { Tmpl(ty, n) : ty \in {"XLAT", "EXEC"}, n \in { <<>>, <<"a">> } }

\* A VALUE_PAIR made by pairalloc; alloc is FALSE for NULL.
NullPair == [alloc |-> FALSE, da_type |-> PW_TYPE_INVALID, data |-> NullValue, length |-> 0]

RECURSIVE Decimal(_)
Decimal(str) ==
    IF str = <<>> THEN 0
    ELSE 10 * Decimal(SubSeq(str, 1, Len(str) - 1)) + DigitVal(str[Len(str)])

\* pairparsevalue(vp, value, 0) for a vp of the given type: whether the text
\* parses, and vp->data and vp->length after it.
pairparsevalue(type, str) ==
    IF type = "integer"
    THEN IF str # <<>> /\ \A i \in 1..Len(str) : str[i] \in Digits
         THEN [ok |-> TRUE, data |-> Value(Decimal(str), <<>>), length |-> 4]
         ELSE [ok |-> FALSE, data |-> NullValue, length |-> 0]
    ELSE [ok |-> TRUE, data |-> Value(0, str), length |-> Len(str)]

\* tmpl_cast_in_place setting the type before the value is allocated.
tmpl_cast_in_place_type_first(t, da_type, vpOk, dataOk) ==
    IF ~vpOk THEN [ret |-> FALSE, tmpl |-> t]
    ELSE LET parsed == pairparsevalue(da_type, t.name)
             typed == [t EXCEPT !.type = "DATA", !.data_type = da_type,
                                !.data_value = NullValue,
                                !.data_length = parsed.length]
         IN  IF ~parsed.ok THEN [ret |-> FALSE, tmpl |-> t]
             ELSE IF ~dataOk THEN [ret |-> FALSE, tmpl |-> typed]
             ELSE [ret |-> TRUE, tmpl |-> [typed EXCEPT !.data_value = parsed.data]]

\* vpOk, dataOk: whether pairalloc and talloc(vpt, value_data_t) succeed.
tmpl_cast_in_place(t, da_type, vpOk, dataOk) ==
    IF ~vpOk THEN [ret |-> FALSE, tmpl |-> t]
    ELSE LET parsed == pairparsevalue(da_type, t.name)
             zeroed == [t EXCEPT !.data_type = PW_TYPE_INVALID,
                                 !.data_value = NullValue, !.data_length = 0]
         IN  IF ~parsed.ok THEN [ret |-> FALSE, tmpl |-> t]
             ELSE IF ~dataOk THEN [ret |-> FALSE, tmpl |-> zeroed]
             ELSE [ret |-> TRUE,
                   tmpl |-> [zeroed EXCEPT !.type = "DATA",
                                           !.data_length = parsed.length,
                                           !.data_type = da_type,
                                           !.data_value = parsed.data]]

\* What the run-time expansion of a template can give: failure, or a text.
Expansions(t) ==
    IF t.type \in {"XLAT", "EXEC"} THEN [ok : BOOLEAN, str : Texts]
    ELSE [ok : BOOLEAN, str : {<<>>}]

\* radius_expand_tmpl: -1 on error, else 0 and the expanded string.  A
\* literal expands to its own text; an xlat or exec string to any text.
radius_expand_tmpl(t, x) ==
    IF ~x.ok THEN [rcode |-> -1, str |-> <<>>]
    ELSE IF t.type = "LITERAL" THEN [rcode |-> 0, str |-> t.name]
    ELSE [rcode |-> 0, str |-> x.str]

\* pairdatacpy: the value is copied as the source type says, into a pair
\* that keeps its own da.
pairdatacpy(pair, type, data, len) ==
    [pair EXCEPT !.data = IF type = "string" THEN Value(0, data.strvalue)
                          ELSE Value(data.integer, <<>>),
                 !.length = len]

CastResult(r, o, f) == [rcode |-> r, out |-> o, fault |-> f]

\* vpOk: whether pairalloc succeeds; x: the outcome of the expansion.
tmpl_cast_to_vp(t, cast_type, vpOk, x) ==
    LET pair == [alloc |-> TRUE, da_type |-> cast_type, data |-> Value(0, <<>>), length |-> 0]
    IN  IF ~vpOk THEN CastResult(-1, NullPair, FALSE)
        ELSE IF t.type = "DATA"
        THEN IF cast_type # t.data_type /\ ~ndebug
             THEN CastResult(0, NullPair, TRUE)
             ELSE CastResult(0, pairdatacpy(pair, t.data_type, t.data_value, t.data_length), FALSE)
        ELSE LET e == radius_expand_tmpl(t, x)
                 parsed == pairparsevalue(cast_type, e.str)
             IN  IF e.rcode < 0 THEN CastResult(e.rcode, NullPair, FALSE)
                 ELSE IF ~parsed.ok THEN CastResult(e.rcode, NullPair, FALSE)
                 ELSE CastResult(0, [pair EXCEPT !.data = parsed.data,
                                                 !.length = parsed.length], FALSE)

----------------------------------------------------------------------------
(* Strings.  A C string is the sequence of its characters; a char pointer
   into it is an offset, offset o being the character s[o + 1], and the
   terminating NUL is read at offset Len(s). *)

NUL == ""
CharAt(s, o) == IF o < Len(s) THEN s[o + 1] ELSE NUL
\* The characters at the offsets a .. b - 1.
Sub(s, a, b) == SubSeq(s, a + 1, b)

\* strchr(s + o, c) as an offset, -1 for NULL.
strchr(s, o, c) ==
    LET hits == { i \in o..(Len(s) - 1) : s[i + 1] = c }
    IN  IF hits = {} THEN -1 ELSE CHOOSE i \in hits : \A j \in hits : i <= j

\* The offset that "while (set[*p]) p++" stops at when it starts at o.
Span(s, o, set) ==
    CHOOSE e \in o..Len(s) : /\ \A i \in o..(e - 1) : s[i + 1] \in set
                             /\ CharAt(s, e) \notin set

DecDigits == <<"0", "1", "2", "3", "4", "5", "6", "7", "8", "9">>
isdigit(c) == \E i \in 1..10 : DecDigits[i] = c
DecVal(c) == (CHOOSE i \in 1..10 : DecDigits[i] = c) - 1
DigitChars == { DecDigits[i] : i \in 1..10 }

UpperCase == <<"A", "B", "C", "D", "E", "F", "G", "H", "I", "J", "K", "L", "M", "N", "O", "P", "Q", "R", "S", "T", "U", "V", "W", "X", "Y", "Z">>
LowerCase == <<"a", "b", "c", "d", "e", "f", "g", "h", "i", "j", "k", "l", "m", "n", "o", "p", "q", "r", "s", "t", "u", "v", "w", "x", "y", "z">>
tolower(c) ==
    IF \E i \in 1..26 : UpperCase[i] = c
    THEN LowerCase[CHOOSE i \in 1..26 : UpperCase[i] = c]
    ELSE c
\* strncasecmp(a, b, n) == 0 for two texts of n characters.
strcaseeq(a, b) ==
    /\ Len(a) = Len(b)
    /\ \A i \in 1..Len(a) : tolower(a[i]) = tolower(b[i])

\* The value of a run of decimal digits.
RECURSIVE Atoi(_)
Atoi(str) ==
    IF str = <<>> THEN 0
    ELSE 10 * Atoi(SubSeq(str, 1, Len(str) - 1)) + DecVal(str[Len(str)])

\* printf("%d") of an int.
RECURSIVE UnsignedToStr(_)
UnsignedToStr(n) ==
    IF n < 10 THEN <<DecDigits[n + 1]>>
    ELSE UnsignedToStr(n \div 10) \o <<DecDigits[(n % 10) + 1]>>
IntToStr(n) == IF n < 0 THEN <<"-">> \o UnsignedToStr(-n) ELSE UnsignedToStr(n)

\* strtol(s + o, &end, 10): blanks, a sign, digits; end is o when there is
\* no digit.  b is the offset after the blanks, d the offset after the sign
\* and e the offset after the digits.
strtol_value(s, o, b, d, e) ==
    IF e = d THEN [num |-> 0, end |-> o]
    ELSE [num |-> (IF CharAt(s, b) = "-" THEN -1 ELSE 1) * Atoi(Sub(s, d, e)),
          end |-> e]
strtol_digits(s, o, b, d) == strtol_value(s, o, b, d, Span(s, d, DigitChars))
strtol_sign(s, o, b) ==
    strtol_digits(s, o, b, IF CharAt(s, b) \in {"-", "+"} THEN b + 1 ELSE b)
strtol(s, o) == strtol_sign(s, o, Span(s, o, {" "}))

----------------------------------------------------------------------------
(* The name tables and the attribute catalogue *)

REQUEST_UNKNOWN == "unknown"

pair_lists ==
    << [name |-> <<"r", "e", "q", "u", "e", "s", "t">>, number |-> "request"],
       [name |-> <<"r", "e", "p", "l", "y">>, number |-> "reply"],
       [name |-> <<"c", "o", "n", "t", "r", "o", "l">>, number |-> "control"],
       [name |-> <<"c", "o", "n", "f", "i", "g">>, number |-> "control"],
       [name |-> <<"p", "r", "o", "x", "y", "-", "r", "e", "q", "u", "e", "s", "t">>, number |-> "proxy-request"],
       [name |-> <<"p", "r", "o", "x", "y", "-", "r", "e", "p", "l", "y">>, number |-> "proxy-reply"],
       [name |-> <<"c", "o", "a">>, number |-> "coa"],
       [name |-> <<"c", "o", "a", "-", "r", "e", "p", "l", "y">>, number |-> "coa-reply"],
       [name |-> <<"d", "i", "s", "c", "o", "n", "n", "e", "c", "t">>, number |-> "disconnect"],
       [name |-> <<"d", "i", "s", "c", "o", "n", "n", "e", "c", "t", "-", "r", "e", "p", "l", "y">>, number |-> "disconnect-reply"] >>

request_refs ==
    << [name |-> <<"o", "u", "t", "e", "r">>, number |-> "outer"],
       [name |-> <<"c", "u", "r", "r", "e", "n", "t">>, number |-> "current"],
       [name |-> <<"p", "a", "r", "e", "n", "t">>, number |-> "parent"] >>

\* The number of the first entry of the table named by the len characters at
\* offset o, compared without case; def when there is none.
fr_substr2int(table, s, o, def, len) ==
    LET hits == { i \in 1..Len(table) : strcaseeq(table[i].name, Sub(s, o, o + len)) }
    IN  IF hits = {} THEN def
        ELSE table[CHOOSE i \in hits : \A j \in hits : i <= j].number

\* The name of the first entry of the table with the number; def when there
\* is none.
fr_int2str(table, number, def) ==
    LET hits == { i \in 1..Len(table) : table[i].number = number }
    IN  IF hits = {} THEN def
        ELSE table[CHOOSE i \in hits : \A j \in hits : i <= j].name

dict_attr_allowed_chars ==
    { UpperCase[i] : i \in 1..26 } \cup { LowerCase[i] : i \in 1..26 }
        \cup DigitChars \cup {"-", "_", ".", "/"}

\* The name of a catalogue attribute.
da_name(da) ==
    CASE da = "Tunnel-Type" -> <<"T", "u", "n", "n", "e", "l", "-", "T", "y", "p", "e">>
      [] da = "User-Name" -> <<"U", "s", "e", "r", "-", "N", "a", "m", "e">>
      [] OTHER -> <<>>

NULL_DA == "NULL"
\* Where a DICT_ATTR * points when it is not at the catalogue: at the unknown
\* attribute built in the parser's local attr, or at the one in the template.
LOCAL_UNKNOWN == "&attr.fugly.unknown"
TMPL_UNKNOWN == "&vpt->data.attribute.fugly.unknown"

\* The catalogue attribute named by the longest run of name characters at
\* offset o, and the offset after it.
dict_attrbyname_substr(s, o) ==
    LET e == Span(s, o, dict_attr_allowed_chars)
        hits == { da \in DictAttrs : strcaseeq(da_name(da), Sub(s, o, e)) }
    IN  IF hits = {} THEN [da |-> NULL_DA, p |-> o]
        ELSE [da |-> CHOOSE da \in hits : TRUE, p |-> e]

\* An unknown attribute from the numeric encoding "Attr-<number>": the
\* DICT_ATTR built for it carries the name printed from the number.
dict_unknown_from_substr(s, o) ==
    LET e == Span(s, o, dict_attr_allowed_chars)
        tok == Sub(s, o, e)
    IN  IF /\ Len(tok) > 5
           /\ strcaseeq(SubSeq(tok, 1, 5), <<"A", "t", "t", "r", "-">>)
           /\ \A i \in 6..Len(tok) : isdigit(tok[i])
        THEN [rcode |-> 0, p |-> e,
              unknown |-> <<"A", "t", "t", "r", "-">> \o IntToStr(Atoi(SubSeq(tok, 6, Len(tok))))]
        ELSE [rcode |-> -1, p |-> o, unknown |-> <<>>]

----------------------------------------------------------------------------
(* The qualifier resolvers of the parser *)

\* radius_request_name: the request reference before the first '.', and *name
\* after the call.  p is the offset of the '.', request the reference named
\* by the text before it.
request_name_found(o, def, p, request) ==
    IF request # REQUEST_UNKNOWN THEN [request |-> request, p |-> p + 1]
    ELSE [request |-> def, p |-> o]
request_name_at(s, o, def, p) ==
    IF p = -1 THEN [request |-> def, p |-> o]
    ELSE request_name_found(o, def, p,
                            fr_substr2int(request_refs, s, o, REQUEST_UNKNOWN, p - o))
radius_request_name(s, o, def) == request_name_at(s, o, def, strchr(s, o, "."))

\* The list named by the text up to a colon, and the offset after the colon.
list_name_matching_colon(o, q, output) ==
    IF output # PAIR_LIST_UNKNOWN THEN [list |-> output, p |-> q + 1]
    ELSE [list |-> PAIR_LIST_UNKNOWN, p |-> o]
\* The list named by the whole text, and the offset of its end.
list_name_matching_all(o, default_list, e, output) ==
    IF output # PAIR_LIST_UNKNOWN THEN [list |-> output, p |-> e]
    ELSE [list |-> default_list, p |-> o]

\* radius_list_name with the look-ahead for a tag left out.
list_name_no_lookahead(s, o, default_list, q) ==
    IF q # -1
    THEN list_name_matching_colon(
             o, q, fr_substr2int(pair_lists, s, o, PAIR_LIST_UNKNOWN, q - o))
    ELSE list_name_matching_all(
             o, default_list, Len(s),
             fr_substr2int(pair_lists, s, o, PAIR_LIST_UNKNOWN, Len(s) - o))

\* radius_list_name matching a list name only before a colon.
list_name_needs_colon(s, o, default_list, q) ==
    IF q # -1
    THEN IF /\ isdigit(CharAt(s, q + 1))
            /\ CharAt(s, Span(s, q + 1, DigitChars)) \in {NUL, "["}
         THEN [list |-> default_list, p |-> o]
         ELSE list_name_matching_colon(
                  o, q, fr_substr2int(pair_lists, s, o, PAIR_LIST_UNKNOWN, q - o))
    ELSE [list |-> default_list, p |-> o]

\* radius_list_name: the list before the first ':', and *name after the call.
\* q is the offset of the colon.
list_name_at(s, o, default_list, q) ==
    IF q # -1
    THEN IF /\ isdigit(CharAt(s, q + 1))
            /\ CharAt(s, Span(s, q + 1, DigitChars)) \in {NUL, "["}
         THEN [list |-> default_list, p |-> o]
         ELSE list_name_matching_colon(
                  o, q, fr_substr2int(pair_lists, s, o, PAIR_LIST_UNKNOWN, q - o))
    ELSE list_name_matching_all(
             o, default_list, Len(s),
             fr_substr2int(pair_lists, s, o, PAIR_LIST_UNKNOWN, Len(s) - o))
radius_list_name(s, o, default_list) ==
    list_name_at(s, o, default_list, strchr(s, o, ":"))

----------------------------------------------------------------------------
(* The grammar parser *)

\* The largest tag and the largest array index the grammar admits.
MAX_TAG == 31
MAX_INDEX == 1000

\* value_pair_tmpl_attr_t after memset(): fugly is the union of the unknown
\* DICT_ATTR and of the verbatim name, "as" telling which of them was
\* written last.
ZeroFugly == [as |-> "zero", text |-> <<>>]
ZeroAttr ==
    [request |-> REQUEST_UNKNOWN, list |-> PAIR_LIST_UNKNOWN, da |-> NULL_DA,
     tag |-> 0, num |-> 0, fugly |-> ZeroFugly]

\* value_pair_tmpl_t after memset().
ZeroTmpl ==
    [type |-> "UNKNOWN", name |-> <<>>, len |-> 0, request |-> REQUEST_UNKNOWN,
     list |-> PAIR_LIST_UNKNOWN, da |-> NULL_DA, tag |-> 0, num |-> 0,
     fugly |-> ZeroFugly]

\* return -(p - name): the template stays as memset() left it.
ParseError(p) == [slen |-> 0 - p, vpt |-> ZeroTmpl]

\* The label finish without the fix-up of the pointer at the unknown attribute.
finish_keeps_local_pointer(s, type, attr, p) ==
    [slen |-> p,
     vpt |-> [type |-> type, name |-> s, len |-> p,
              request |-> attr.request, list |-> attr.list,
              da |-> attr.da,
              tag |-> attr.tag, num |-> attr.num, fugly |-> attr.fugly]]

\* The label finish: the local attr is copied into the template, and a
\* pointer at the local unknown attribute is moved to the copy.
finish(s, type, attr, p) ==
    [slen |-> p,
     vpt |-> [type |-> type, name |-> s, len |-> p,
              request |-> attr.request, list |-> attr.list,
              da |-> IF type = "ATTR" /\ attr.da = LOCAL_UNKNOWN
                     THEN TMPL_UNKNOWN ELSE attr.da,
              tag |-> attr.tag, num |-> attr.num, fugly |-> attr.fugly]]

\* The closing bracket of the index.
index_close(s, type, attr, p) ==
    IF CharAt(s, p) # "]" THEN ParseError(p)
    ELSE finish(s, type, attr, p + 1)

\* The number of the index, tested against one more than the limit.
index_number_off_by_one(s, type, attr, p, n) ==
    IF n.end = p THEN ParseError(p)
    ELSE IF n.num > MAX_INDEX + 1 \/ n.num < 0 THEN ParseError(p)
    ELSE index_close(s, type, [attr EXCEPT !.num = n.num], n.end)

\* The number of the index: n is what strtol made of the text at p.
index_number(s, type, attr, p, n) ==
    IF n.end = p THEN ParseError(p)
    ELSE IF n.num > MAX_INDEX \/ n.num < 0 THEN ParseError(p)
    ELSE index_close(s, type, [attr EXCEPT !.num = n.num], n.end)

\* The label skip_tag: the array index.
skip_tag(s, type, attr, p) ==
    IF CharAt(s, p) = NUL THEN finish(s, type, attr, p)
    ELSE IF CharAt(s, p) # "[" THEN finish(s, type, attr, p)
    ELSE IF CharAt(s, p + 1) # "*"
    THEN index_number(s, type, attr, p + 1, strtol(s, p + 1))
    ELSE index_close(s, type, [attr EXCEPT !.num = NUM_ALL], p + 2)

\* The tag of a catalogue attribute: num is what strtol made of the text
\* after the colon at p.
attr_tag(s, attr, p, num) ==
    IF num.num > MAX_TAG \/ num.num < 0 THEN ParseError(p + 1)
    ELSE skip_tag(s, "ATTR", [attr EXCEPT !.tag = num.num], num.end)

\* A name that is neither in the catalogue nor numeric is kept verbatim: e is
\* the offset after its last character.
attr_verbatim(s, attr, p, e) ==
    IF e - p > UnknownNameMax THEN ParseError(p + UnknownNameMax)
    ELSE skip_tag(s, "ATTR_UNKNOWN",
                  [attr EXCEPT !.fugly = [as |-> "name", text |-> Sub(s, p, e)]], e)

\* A name that is not in the catalogue, refused when it is not numeric, with
\* or without the '&'.
attr_unknown_rejects_verbatim(s, force_attr, attr, p, unknown) ==
    IF unknown.rcode = 0
    THEN skip_tag(s, "ATTR",
                  [attr EXCEPT !.da = LOCAL_UNKNOWN,
                               !.fugly = [as |-> "unknown", text |-> unknown.unknown]],
                  unknown.p)
    ELSE ParseError(p)

\* A name that is not in the catalogue: unknown is what
\* dict_unknown_from_substr made of the text at p.
attr_unknown(s, force_attr, attr, p, unknown) ==
    IF unknown.rcode = 0
    THEN skip_tag(s, "ATTR",
                  [attr EXCEPT !.da = LOCAL_UNKNOWN,
                               !.fugly = [as |-> "unknown", text |-> unknown.unknown]],
                  unknown.p)
    ELSE IF ~force_attr THEN ParseError(p)
    ELSE attr_verbatim(s, attr, p, Span(s, p, dict_attr_allowed_chars))

\* The attribute name at p: known is what dict_attrbyname_substr made of it.
attr_name(s, force_attr, attr, p, known) ==
    IF known.da = NULL_DA
    THEN attr_unknown(s, force_attr, attr, p, dict_unknown_from_substr(s, p))
    ELSE IF CharAt(s, known.p) = ":"
    THEN IF ~has_tag(known.da) THEN ParseError(known.p)
         ELSE attr_tag(s, [attr EXCEPT !.da = known.da], known.p,
                       strtol(s, known.p + 1))
    ELSE skip_tag(s, "ATTR", [attr EXCEPT !.da = known.da], known.p)

\* What follows the qualifiers: ls is what radius_list_name returned.
attr_after_list(s, force_attr, request, ls) ==
    IF ls.list = PAIR_LIST_UNKNOWN THEN ParseError(ls.p)
    ELSE IF CharAt(s, ls.p) = NUL
    THEN finish(s, "LIST", [ZeroAttr EXCEPT !.request = request, !.list = ls.list],
                ls.p)
    ELSE attr_name(s, force_attr,
                   [ZeroAttr EXCEPT !.request = request, !.list = ls.list,
                                    !.tag = TAG_ANY, !.num = NUM_ANY],
                   ls.p, dict_attrbyname_substr(s, ls.p))

\* What follows the request reference: rq is what radius_request_name
\* returned.
attr_after_request(s, force_attr, rq, list_def) ==
    IF rq.request = REQUEST_UNKNOWN THEN ParseError(rq.p)
    ELSE attr_after_list(s, force_attr, rq.request,
                         radius_list_name(s, rq.p, list_def))

\* tmpl_from_attr_substr: the return value and the template written to *vpt.
tmpl_from_attr_substr(s, request_def, list_def) ==
    attr_after_request(s, CharAt(s, 0) = "&",
                       radius_request_name(s, IF CharAt(s, 0) = "&" THEN 1 ELSE 0,
                                           request_def),
                       list_def)

\* tmpl_from_attr_str: the whole text must be the reference.  res is what
\* tmpl_from_attr_substr returned.
attr_str_whole(s, res) ==
    IF res.slen <= 0 THEN res
    ELSE IF CharAt(s, res.slen) # NUL THEN [res EXCEPT !.slen = 0 - res.slen]
    ELSE res
tmpl_from_attr_str(s, request_def, list_def) ==
    attr_str_whole(s, tmpl_from_attr_substr(s, request_def, list_def))

\* No template: *out is left alone.
NoParsed == [type |-> "NONE"]

\* tmpl_afrom_attr_str: the template is freed on every error, and owns a
\* copy of the text it was parsed from.
attr_str_alloc(s, res) ==
    IF res.slen <= 0 THEN [slen |-> res.slen, vpt |-> NoParsed]
    ELSE IF CharAt(s, res.slen) # NUL THEN [slen |-> 0 - res.slen, vpt |-> NoParsed]
    ELSE [slen |-> res.slen, vpt |-> [res.vpt EXCEPT !.name = Sub(s, 0, res.vpt.len)]]
tmpl_afrom_attr_str(s, request_def, list_def) ==
    attr_str_alloc(s, tmpl_from_attr_substr(s, request_def, list_def))

\* tmpl_alloc: a zeroed template of the type, owning a copy of the name.
tmpl_alloc(type, name) == [ZeroTmpl EXCEPT !.type = type, !.name = name, !.len = Len(name)]

\* A bare word of which every parse error is handed to the caller.
bare_word_no_literal(s, res, lit) == res

\* A bare word: res is what tmpl_afrom_attr_str returned, lit the literal
\* that tmpl_alloc makes of the text.
bare_word(s, res, lit) ==
    IF CharAt(s, 0) = "&" /\ res.slen <= 0 THEN res
    ELSE IF res.slen > 0 THEN res
    ELSE [slen |-> lit.len, vpt |-> lit]

\* The scan of a double-quoted string from the offset p: where the loop
\* stops.  A backslash skips the character after it, a backslash at the end
\* of the string and a '%' stop the scan.
RECURSIVE double_quoted_scan(_, _)
double_quoted_scan(s, p) ==
    IF CharAt(s, p) = NUL THEN p
    ELSE IF CharAt(s, p) = "\\" THEN
             IF CharAt(s, p + 1) = NUL THEN p
             ELSE double_quoted_scan(s, p + 2)
    ELSE IF CharAt(s, p) = "%" THEN p
    ELSE double_quoted_scan(s, p + 1)

\* A double-quoted string whose scan stopped at p: an xlat when the scan did
\* not reach the end of the string, a literal when it did.
double_quoted(s, p) ==
    IF CharAt(s, p) # NUL THEN tmpl_alloc("XLAT", s) ELSE tmpl_alloc("LITERAL", s)

\* The result of tmpl_afrom_str for a template that tmpl_alloc returned.
allocated(t) == [slen |-> t.len, vpt |-> t]

\* The kinds of quoting (FR_TOKEN) tmpl_afrom_str accepts.
QuotedTokens ==
    {"T_SINGLE_QUOTED_STRING", "T_DOUBLE_QUOTED_STRING", "T_BACK_QUOTED_STRING", "T_OP_REG_EQ"}

\* tmpl_afrom_str.  A bare word is an attribute reference, or else a literal;
\* the quoting decides the type of every other text.
tmpl_afrom_str(s, type, request_def, list_def) ==
    CASE type = "T_BARE_WORD" ->
             bare_word(s, tmpl_afrom_attr_str(s, request_def, list_def),
                       tmpl_alloc("LITERAL", s))
      [] type = "T_SINGLE_QUOTED_STRING" -> allocated(tmpl_alloc("LITERAL", s))
      [] type = "T_DOUBLE_QUOTED_STRING" -> allocated(double_quoted(s, double_quoted_scan(s, 0)))
      [] type = "T_BACK_QUOTED_STRING" -> allocated(tmpl_alloc("EXEC", s))
      [] type = "T_OP_REG_EQ" -> allocated(tmpl_alloc("REGEX", s))

----------------------------------------------------------------------------
(* The printer *)

\* The quoted form of a name: the quote and the backslash are escaped.
RECURSIVE Quoted(_, _)
Quoted(str, c) ==
    IF str = <<>> THEN <<>>
    ELSE (IF Head(str) \in {c, "\\"} THEN <<"\\", Head(str)>> ELSE <<Head(str)>>)
             \o Quoted(Tail(str), c)

\* The name the template's descriptor carries.
tmpl_da_name(t) == IF t.da = TMPL_UNKNOWN THEN t.fugly.text ELSE da_name(t.da)

\* tmpl_prints into a buffer that has room for the text.
tmpl_prints(t) ==
    LET ref == fr_int2str(request_refs, t.request, <<>>)
        list == fr_int2str(pair_lists, t.list, <<>>)
        name == IF t.type = "ATTR" THEN tmpl_da_name(t) ELSE t.fugly.text
        head == IF t.request = "current"
                THEN IF t.list = "request" THEN <<"&">> \o name
                     ELSE <<"&">> \o list \o <<":">> \o name
                ELSE <<"&">> \o ref \o <<".">> \o list \o <<":">> \o name
        tag == IF t.tag # TAG_ANY THEN <<":">> \o IntToStr(t.tag) ELSE <<>>
        num == IF t.num # NUM_ANY THEN <<"[">> \o IntToStr(t.num) \o <<"]">> ELSE <<>>
        bare == \A i \in 1..Len(t.name) :
                    t.name[i] \in dict_attr_allowed_chars \ {" ", "'"}
    IN  CASE t.type = "ATTR" -> head \o tag \o num
          [] t.type = "ATTR_UNKNOWN" -> head \o num
          [] t.type \in {"LIST", "LITERAL"} ->
                 IF bare THEN t.name ELSE <<"'">> \o Quoted(t.name, "'") \o <<"'">>
          [] OTHER -> <<>>

----------------------------------------------------------------------------
(* The texts handed to the parser: every concatenation of one choice for each
   part of the grammar, the malformed choices included. *)

\* A name that is in no catalogue, one character longer than a template holds.
LongName == [i \in 1..(UnknownNameMax + 1) |-> "x"]

Sigils == {<<>>, <<"&">>}
RefTexts == {<<>>, <<"o", "u", "t", "e", "r", ".">>, <<"c", "u", "r", "r", "e", "n", "t", ".">>}
ListTexts == {<<>>, <<"r", "e", "q", "u", "e", "s", "t", ":">>, <<"r", "e", "p", "l", "y", ":">>, <<"c", "o", "n", "f", "i", "g", ":">>, <<"b", "o", "g", "u", "s", ":">>, <<"r", "e", "p", "l", "y">>}
NameTexts == {<<>>, <<"U", "s", "e", "r", "-", "N", "a", "m", "e">>, <<"T", "u", "n", "n", "e", "l", "-", "T", "y", "p", "e">>, <<"A", "t", "t", "r", "-", "2", "6">>, <<"f", "o", "o">>, LongName}
TagTexts == {<<>>, <<":", "0">>, <<":", "3", "1">>, <<":", "3", "2">>, <<":", "-", "1">>}
\* The last two are an index, or none, before text that is no part of a
\* reference.
IndexTexts == {<<>>, <<"[", "0", "]">>, <<"[", "1", "0", "0", "0", "]">>, <<"[", "1", "0", "0", "1", "]">>, <<"[", "*", "]">>, <<"[", "-", "1", "]">>, <<"[", "]">>, <<"[", "1">>,
               <<"[", "0", "]", "!">>, <<"!">>}

Parts ==
    [sigil : Sigils, ref : RefTexts, list : ListTexts, name : NameTexts,
     tag : TagTexts, index : IndexTexts]
NoParts ==
    [sigil |-> <<>>, ref |-> <<>>, list |-> <<>>, name |-> <<>>, tag |-> <<>>,
     index |-> <<>>]
Join(ps) == ps.sigil \o ps.ref \o ps.list \o ps.name \o ps.tag \o ps.index

\* The defaults a caller passes for an unqualified reference.
RequestDefs == {"current"}
ListDefs == {"request", "reply"}

----------------------------------------------------------------------------
(* Actions: one call of a function of tmpl.c.  The functions keep no state
   of their own between calls: a behaviour is one call on the graph or the
   template of the initial state, followed by the calls that continue it
   (tmpl_cursor_next after tmpl_cursor_init, tmpl_cast_to_vp on a template
   that tmpl_cast_in_place has cast). *)

NoArgs == [none |-> TRUE]

RadiusRequest ==
    /\ ~fault
    /\ op = ""
    /\ \E r \in Requests, name \in REQUEST_REFS :
         LET res == radius_request(r, name)
         IN  /\ op' = "radius_request"
             /\ args' = [context |-> r, name |-> name]
             /\ context' = res.context
             /\ rcode' = res.rcode
    /\ UNCHANGED <<chain, cfg, shape, ndebug, vps, vpt, cursor, vp, err, fault,
                   yielded, tmpl, out>>
    /\ UNCHANGED pvars
    /\ UNCHANGED bvars
    /\ UNCHANGED list_ctx

RadiusList ==
    /\ ~fault
    /\ op = ""
    /\ \E r \in {0} \cup Requests, list \in PAIR_LISTS \cup {PAIR_LIST_UNKNOWN} :
         /\ op' = "radius_list"
         /\ args' = [request |-> r, list |-> list]
         /\ vps' = radius_list(r, list)
    /\ UNCHANGED <<chain, cfg, shape, ndebug, context, rcode, vpt, cursor, vp, err,
                   fault, yielded, tmpl, out>>
    /\ UNCHANGED pvars
    /\ UNCHANGED bvars
    /\ UNCHANGED list_ctx

RadiusListCtx ==
    /\ ~fault
    /\ op = ""
    /\ \E r \in {0} \cup Requests, list \in PAIR_LISTS \cup {PAIR_LIST_UNKNOWN} :
         /\ op' = "radius_list_ctx"
         /\ args' = [request |-> r, list |-> list]
         /\ list_ctx' = radius_list_ctx(r, list)
    /\ UNCHANGED <<chain, cfg, shape, ndebug, context, rcode, vps, vpt, cursor, vp, err,
                   fault, yielded, tmpl, out>>
    /\ UNCHANGED pvars
    /\ UNCHANGED bvars

TmplCursorInit ==
    /\ ~fault
    /\ op = ""
    /\ \E r \in Requests, t \in CursorTmpls, wild \in WildReads :
         LET res == tmpl_cursor_init(r, t, wild)
         IN  /\ op' = "tmpl_cursor_init"
             /\ args' = [request |-> r]
             /\ vpt' = t
             /\ cursor' = res.cursor
             /\ vp' = res.vp
             /\ err' = res.err
             /\ fault' = res.fault
             /\ yielded' = IF res.vp = NullVp THEN <<>> ELSE <<res.vp>>
    /\ UNCHANGED <<chain, cfg, shape, ndebug, context, rcode, vps, tmpl, out>>
    /\ UNCHANGED pvars
    /\ UNCHANGED bvars
    /\ UNCHANGED list_ctx

\* Callers step a cursor that tmpl_cursor_init has initialised.
TmplCursorNext ==
    /\ ~fault
    /\ op \in {"tmpl_cursor_init", "tmpl_cursor_next"}
    /\ err \in {0, -1}
    /\ LET res == tmpl_cursor_next(cursor, vpt)
       IN  /\ op' = "tmpl_cursor_next"
           /\ cursor' = res.cursor
           /\ vp' = res.vp
           /\ yielded' = IF res.vp = NullVp THEN yielded ELSE Append(yielded, res.vp)
    /\ UNCHANGED <<chain, cfg, shape, ndebug, args, context, rcode, vps, vpt, err,
                   fault, tmpl, out>>
    /\ UNCHANGED pvars
    /\ UNCHANGED bvars
    /\ UNCHANGED list_ctx

\* tmpl_cast_in_place asserts that the template is a literal.
TmplCastInPlace ==
    /\ ~fault
    /\ op = ""
    /\ tmpl.type = "LITERAL"
    /\ \E da_type \in PW_TYPES, vpOk \in BOOLEAN, dataOk \in BOOLEAN :
         LET res == tmpl_cast_in_place(tmpl, da_type, vpOk, dataOk)
         IN  /\ op' = "tmpl_cast_in_place"
             /\ args' = [vpt |-> tmpl, type |-> da_type, vpOk |-> vpOk, dataOk |-> dataOk]
             /\ tmpl' = res.tmpl
             /\ rcode' = IF res.ret THEN 1 ELSE 0
    /\ UNCHANGED <<chain, cfg, shape, ndebug, context, vps, vpt, cursor, vp, err,
                   fault, yielded, out>>
    /\ UNCHANGED pvars
    /\ UNCHANGED bvars
    /\ UNCHANGED list_ctx

TmplCastToVp ==
    /\ ~fault
    /\ op \in {"", "tmpl_cast_in_place"}
    /\ \E cast_type \in PW_TYPES, vpOk \in BOOLEAN, x \in Expansions(tmpl) :
         LET res == tmpl_cast_to_vp(tmpl, cast_type, vpOk, x)
         IN  /\ op' = "tmpl_cast_to_vp"
             /\ args' = [vpt |-> tmpl, type |-> cast_type, vpOk |-> vpOk, x |-> x]
             /\ out' = res.out
             /\ rcode' = res.rcode
             /\ fault' = res.fault
    /\ UNCHANGED <<chain, cfg, shape, ndebug, context, vps, vpt, cursor, vp, err,
                   yielded, tmpl>>
    /\ UNCHANGED pvars
    /\ UNCHANGED bvars
    /\ UNCHANGED list_ctx

\* tmpl_find_vp: the cursor is local to the call.
tmpl_find_vp(request, t, wild) ==
    LET res == tmpl_cursor_init(request, t, wild)
    IN  [rcode |-> res.err, out |-> res.vp, fault |-> res.fault]

TmplFindVp ==
    /\ ~fault
    /\ op = ""
    /\ \E r \in Requests, t \in CursorTmpls, wild \in WildReads :
         LET res == tmpl_find_vp(r, t, wild)
         IN  /\ op' = "tmpl_find_vp"
             /\ args' = [request |-> r]
             /\ vpt' = t
             /\ vp' = res.out
             /\ rcode' = res.rcode
             /\ fault' = res.fault
    /\ UNCHANGED <<chain, cfg, shape, ndebug, context, vps, cursor, err, yielded,
                   tmpl, out>>
    /\ UNCHANGED pvars
    /\ UNCHANGED bvars
    /\ UNCHANGED list_ctx

\* paircopyvp: a new VALUE_PAIR with the descriptor, the tag and the value of
\* the element.
paircopyvp(v) == Contents(v.loc)[v.idx]

\* The loop of tmpl_copy_vps that leaves the copies made so far in *out when
\* paircopyvp fails.
RECURSIVE copy_loop_keeps_partial(_, _, _, _, _)
copy_loop_keeps_partial(from, v, t, to, fail) ==
    IF v = NullVp THEN [failed |-> FALSE, out |-> to]
    ELSE IF Len(to) + 1 = fail THEN [failed |-> TRUE, out |-> to]
    ELSE LET nx == tmpl_cursor_next(from, t)
         IN  copy_loop_keeps_partial(nx.cursor, nx.vp, t, Append(to, paircopyvp(v)), fail)

\* The loop of tmpl_copy_vps: v is the element the cursor from returned
\* last, to the list of the copies so far, and paircopyvp fails at its
\* fail-th call (never when fail is 0).  fr_cursor_insert adds a copy at the
\* end of the list, and pairfree leaves the list empty.
RECURSIVE copy_loop(_, _, _, _, _)
copy_loop(from, v, t, to, fail) ==
    IF v = NullVp THEN [failed |-> FALSE, out |-> to]
    ELSE IF Len(to) + 1 = fail THEN [failed |-> TRUE, out |-> <<>>]
    ELSE LET nx == tmpl_cursor_next(from, t)
         IN  copy_loop(nx.cursor, nx.vp, t, Append(to, paircopyvp(v)), fail)

\* The return of tmpl_copy_vps: err is *err of tmpl_cursor_init.
copy_return(err_, loop) ==
    IF loop.failed THEN [rcode |-> -4, out |-> loop.out, fault |-> FALSE]
    ELSE [rcode |-> err_, out |-> loop.out, fault |-> FALSE]

\* tmpl_copy_vps after tmpl_cursor_init has returned res.
copy_from(t, fail, res) ==
    IF res.fault THEN [rcode |-> 0, out |-> <<>>, fault |-> TRUE]
    ELSE copy_return(res.err, copy_loop(res.cursor, res.vp, t, <<>>, fail))

\* tmpl_copy_vps: the return value and the list in *out.
tmpl_copy_vps(request, t, wild, fail) ==
    copy_from(t, fail, tmpl_cursor_init(request, t, wild))

\* The call of paircopyvp that fails in a call of tmpl_copy_vps: none, the
\* first or the second.
CopyFailures == {0, 1, 2}

\* The templates tmpl_copy_vps is called with: one list of each packet kind,
\* and the unknown list.
CopyTmpls ==
    { t \in CursorTmpls : t.list \in {"request", "reply", "coa", PAIR_LIST_UNKNOWN} }

TmplCopyVps ==
    /\ ~fault
    /\ op = ""
    /\ \E r \in Requests, t \in CopyTmpls, wild \in WildReads, fail \in CopyFailures :
         LET res == tmpl_copy_vps(r, t, wild, fail)
         IN  /\ op' = "tmpl_copy_vps"
             /\ args' = [request |-> r, wild |-> wild, fail |-> fail, shape |-> shape]
             /\ vpt' = t
             /\ out' = res.out
             /\ rcode' = res.rcode
             /\ fault' = res.fault
    /\ UNCHANGED <<chain, cfg, shape, ndebug, context, vps, cursor, vp, err, yielded,
                   tmpl>>
    /\ UNCHANGED pvars
    /\ UNCHANGED bvars
    /\ UNCHANGED list_ctx

RadiusListName ==
    /\ op = ""
    /\ \E o \in {0, Len(parts.sigil)}, default_list \in ListDefs :
         LET res == radius_list_name(text, o, default_list)
         IN  /\ op' = "radius_list_name"
             /\ args' = [name |-> o, default_list |-> default_list]
             /\ rcode' = res.list
             /\ pos' = res.p
    /\ UNCHANGED <<text, parts, pvpt, buffer>>
    /\ UNCHANGED cvars
    /\ UNCHANGED bvars
    /\ UNCHANGED list_ctx

TmplFromAttrSubstr ==
    /\ op = ""
    /\ \E request_def \in RequestDefs, list_def \in ListDefs :
         LET res == tmpl_from_attr_substr(text, request_def, list_def)
         IN  /\ op' = "tmpl_from_attr_substr"
             /\ args' = [request_def |-> request_def, list_def |-> list_def]
             /\ rcode' = res.slen
             /\ pvpt' = res.vpt
    /\ UNCHANGED <<text, parts, pos, buffer>>
    /\ UNCHANGED cvars
    /\ UNCHANGED bvars
    /\ UNCHANGED list_ctx

TmplFromAttrStr ==
    /\ op = ""
    /\ \E request_def \in RequestDefs, list_def \in ListDefs :
         LET res == tmpl_from_attr_str(text, request_def, list_def)
         IN  /\ op' = "tmpl_from_attr_str"
             /\ args' = [request_def |-> request_def, list_def |-> list_def]
             /\ rcode' = res.slen
             /\ pvpt' = res.vpt
    /\ UNCHANGED <<text, parts, pos, buffer>>
    /\ UNCHANGED cvars
    /\ UNCHANGED bvars
    /\ UNCHANGED list_ctx

\* *out is written on success only.
TmplAfromStr ==
    /\ op = ""
    /\ \E request_def \in RequestDefs, list_def \in ListDefs :
         LET res == tmpl_afrom_str(text, "T_BARE_WORD", request_def, list_def)
         IN  /\ op' = "tmpl_afrom_str"
             /\ args' = [type |-> "T_BARE_WORD", request_def |-> request_def,
                         list_def |-> list_def]
             /\ rcode' = res.slen
             /\ pvpt' = res.vpt
    /\ UNCHANGED <<text, parts, pos, buffer>>
    /\ UNCHANGED cvars
    /\ UNCHANGED bvars
    /\ UNCHANGED list_ctx

\* The characters of the quoted strings: a plain one, the one that starts
\* an expansion, and the one that escapes.
QuotedChars == {"a", "%", "\\"}
QuotedTexts == SeqsUpTo(QuotedChars, MaxQuoted)

\* tmpl_afrom_str on a quoted string.
TmplAfromStrQuoted ==
    /\ op = ""
    /\ \E type \in QuotedTokens, request_def \in RequestDefs, list_def \in ListDefs :
         LET res == tmpl_afrom_str(text, type, request_def, list_def)
         IN  /\ op' = "tmpl_afrom_str"
             /\ args' = [type |-> type, request_def |-> request_def,
                         list_def |-> list_def]
             /\ rcode' = res.slen
             /\ pvpt' = res.vpt
    /\ UNCHANGED <<text, parts, pos, buffer>>
    /\ UNCHANGED cvars
    /\ UNCHANGED bvars
    /\ UNCHANGED list_ctx

\* Callers print a template that a parser has returned.
TmplPrints ==
    /\ op \in {"tmpl_from_attr_str", "tmpl_afrom_str"}
    /\ rcode > 0
    /\ op' = "tmpl_prints"
    /\ buffer' = tmpl_prints(pvpt)
    /\ UNCHANGED <<text, parts, pvpt, pos, args, rcode>>
    /\ UNCHANGED <<chain, cfg, shape, ndebug, context, vps, vpt, cursor, vp, err,
                   fault, yielded, tmpl, out>>
    /\ UNCHANGED bvars
    /\ UNCHANGED list_ctx

----------------------------------------------------------------------------
(* rlm_couchbase: mod_instantiate *)

\* The characters mod_instantiate takes for separators of server names.
Separators == {"\t", " ", ","}

\* The characters of the raw server strings: a plain one and the separators.
RawChars == {"a"} \cup Separators
RawTexts == SeqsUpTo(RawChars, MaxRaw)

\* The C string an array of characters holds: the characters before its
\* first NUL.
RECURSIVE CString(_)
CString(arr) ==
    IF arr = <<>> \/ Head(arr) = NUL THEN <<>> ELSE <<Head(arr)>> \o CString(Tail(arr))

\* The loop of mod_instantiate over the array raw (the raw string and its
\* terminator) from the index i: buf holds the characters written so far, so
\* that p is server + Len(buf).
RECURSIVE server_loop(_, _, _, _)
server_loop(raw, i, sep, buf) ==
    IF i >= Len(raw) THEN buf
    ELSE IF raw[i + 1] \in Separators
         THEN IF sep THEN server_loop(raw, i + 1, TRUE, buf)
              ELSE server_loop(raw, i + 1, TRUE, Append(buf, ";"))
         ELSE server_loop(raw, i + 1, FALSE, Append(buf, raw[i + 1]))

\* *p = '\0' after the loop: the size of the allocated array, the offsets
\* written in all, and the string that inst->server points at.
server_terminate(len, buf) ==
    [size |-> len, writes |-> 0..Len(buf), server |-> CString(Append(buf, NUL))]

\* The block of mod_instantiate that normalises inst->server_raw; the length
\* of the talloc array counts the terminator.
server_normalise(server_raw) ==
    server_terminate(Len(server_raw) + 1,
                     server_loop(Append(server_raw, NUL), 0, FALSE, <<>>))

NoServer == [size |-> 0, writes |-> {}, server |-> <<>>]

\* What the configuration holds for the clients: read_clients is off, or
\* the client section is missing, or its attribute subsection is, or
\* mod_load_client_documents fails, or it succeeds.
ClientLoads == {"off", "no section", "no attribute", "failed", "loaded"}

\* The return value of mod_instantiate after the server string is set.
instantiate_return(map_ok, pool_ok, clients) ==
    IF ~map_ok THEN -1
    ELSE IF ~pool_ok THEN -1
    ELSE IF clients \in {"no section", "no attribute", "failed"} THEN -1
    ELSE 0

\* mod_instantiate.
mod_instantiate(server_raw, map_ok, pool_ok, clients) ==
    [server |-> server_normalise(server_raw),
     rcode |-> instantiate_return(map_ok, pool_ok, clients)]

----------------------------------------------------------------------------
(* rlm_couchbase: documents *)

\* The elements of the documents of the model: the three that
\* mod_accounting sets itself, one that the attribute map names, and two
\* that only a stored document holds.
Elements == {"docType", "startTimestamp", "stopTimestamp", "userName", "custom", "extra"}

\* JSON values; Absent stands for an element that the object does not hold.
JString(v) == [type |-> "string", value |-> v]
Absent == [type |-> "absent", value |-> ""]

\* json_object_new_object: an object without elements.
json_object_new_object == [e \in Elements |-> Absent]

\* json_object_object_add: the element is added, or its value replaced.
json_object_object_add(obj, key, val) == [obj EXCEPT ![key] = val]

\* The length of the text json_object_to_json_string returns, in elements.
json_length(obj) == Cardinality({ e \in Elements : obj[e] # Absent })

\* A document of the store, or none.
Doc(d) == [exists |-> TRUE, doc |-> d]
NoDoc == [exists |-> FALSE, doc |-> json_object_new_object]

StoredDocs ==
    { Doc(d) : d \in { f \in [Elements -> {Absent, JString("null"), JString("t1"),
                                            JString("radacct"), JString("bob"),
                                            JString("x")}] :
                        /\ f["docType"] = JString("radacct")
                        /\ f["startTimestamp"] \in {JString("null"), JString("t1")}
                        /\ f["stopTimestamp"] = JString("null")
                        /\ f["userName"] \in {Absent, JString("bob")}
                        /\ f["custom"] \in {Absent, JString("x")}
                        /\ f["extra"] \in {Absent, JString("x")} } }
        \cup {NoDoc}

\* The attributes of an accounting packet that the module looks at, and the
\* packets: "" stands for an attribute that pairfind does not find.
AcctAttrs == {"Event-Timestamp", "User-Name", "Acct-Session-Time"}
AcctPackets ==
    { f \in [AcctAttrs -> {"", "t2", "alice", "60"}] :
        /\ f["Event-Timestamp"] \in {"", "t2"}
        /\ f["User-Name"] \in {"", "alice"}
        /\ f["Acct-Session-Time"] \in {"", "60"} }

\* Acct-Status-Type: "" when the packet has none.
StatusTypes == {"", "Start", "Stop", "Alive", "Accounting-On", "Accounting-Off", "Failed"}

\* mod_attribute_to_element with the attribute map of the instance: the
\* element an attribute is mapped to, "" when the map does not hold it.
mod_attribute_to_element(attr) == IF attr = "User-Name" THEN "userName" ELSE ""

\* mod_value_pair_to_json_object.
mod_value_pair_to_json_object(value) == JString(value)

\* mod_ensure_start_timestamp: a start time that is missing or "null" is
\* computed from the event time and the session time of the packet ("t2-60"
\* for the one event time and the one session time of the model).
mod_ensure_start_timestamp(obj, packet) ==
    IF obj["startTimestamp"] \notin {Absent, JString("null")} THEN obj
    ELSE IF packet["Acct-Session-Time"] = "" \/ packet["Event-Timestamp"] = "" THEN obj
    ELSE json_object_object_add(obj, "startTimestamp",
                                JString("t2-60"))

\* What couchbase_get_key leaves: its return value, cookie->jerr, and
\* whether cookie->jobj points at an object.
GetResult(cb, jerr, jobj) == [cb_ok |-> cb, jerr_ok |-> jerr, jobj |-> jobj]

\* The outcomes of couchbase_get_key: without a stored document the key is
\* not found; with one, the document is returned, or the operation fails
\* (a timeout), or the parser fails, with or without a partly built object.
GetOutcomes(doc) ==
    IF doc.exists
    THEN {GetResult(TRUE, TRUE, TRUE), GetResult(FALSE, TRUE, FALSE),
          GetResult(TRUE, FALSE, FALSE), GetResult(TRUE, FALSE, TRUE)}
    ELSE {GetResult(FALSE, TRUE, FALSE), GetResult(TRUE, TRUE, FALSE)}

\* The events of a call on the connection handle and on the JSON objects that
\* cookie->jobj points at: the object that couchbase_get_key made and the one
\* that json_object_new_object made.
Ev(e, o) == [e |-> e, o |-> o]
GetHandle == Ev("fr_connection_get", "handle")
ReleaseHandle == Ev("fr_connection_release", "handle")
Made(o) == Ev("made", o)
Use(o) == Ev("use", o)
Put(o) == Ev("json_object_put", o)

\* The result of a handler: return code, events, and the document handed to
\* couchbase_set_key.
ModResult(rc, tr, doc) == [rcode |-> rc, trace |-> tr, written |-> doc]

----------------------------------------------------------------------------
(* rlm_couchbase: mod_authorize, mod_accounting *)

\* mod_authorize after couchbase_get_key has returned g.  The documents of
\* the model hold no "config" and no "reply" element, so that
\* mod_json_object_to_value_pairs reads the object and adds no pair.
authorize_fetched(tr, g) ==
    IF ~g.cb_ok \/ ~g.jerr_ok \/ ~g.jobj
    THEN ModResult("RLM_MODULE_FAIL",
                   tr \o (IF g.jobj THEN <<Made("fetched"), Put("fetched")>> ELSE <<>>)
                      \o <<ReleaseHandle>>,
                   NoDoc)
    ELSE ModResult("RLM_MODULE_OK",
                   tr \o <<Made("fetched"), Use("fetched"), Use("fetched"), Use("fetched"),
                           Put("fetched"), ReleaseHandle>>,
                   NoDoc)

\* mod_authorize: xlat_ok tells whether radius_xlat built the key, conn
\* whether fr_connection_get returned a handle, cookie whether the handle
\* has a cookie.
mod_authorize(xlat_ok, conn, cookie, g) ==
    IF ~xlat_ok THEN ModResult("RLM_MODULE_FAIL", <<>>, NoDoc)
    ELSE IF ~conn THEN ModResult("RLM_MODULE_FAIL", <<>>, NoDoc)
    ELSE IF ~cookie THEN ModResult("RLM_MODULE_FAIL", <<GetHandle, ReleaseHandle>>, NoDoc)
    ELSE authorize_fetched(<<GetHandle>>, g)

\* The end of mod_accounting: the text of the object o is copied to the
\* document buffer, the object is released, and the document is stored.
acct_store(tr, o, obj) ==
    IF json_length(obj) >= MaxValueSize
    THEN ModResult("RLM_MODULE_FAIL", tr \o <<Use(o), Put(o), ReleaseHandle>>, NoDoc)
    ELSE ModResult("RLM_MODULE_OK", tr \o <<Use(o), Put(o), ReleaseHandle>>, Doc(obj))

\* The attributes of the packet, in the order of its list.
AcctOrder == <<"Event-Timestamp", "User-Name", "Acct-Session-Time">>

\* The loop over the pairs of the packet from the i-th on: every mapped
\* attribute is added to the object under the name of its element.
RECURSIVE acct_map(_, _, _)
acct_map(obj, packet, i) ==
    IF i > Len(AcctOrder) THEN obj
    ELSE IF packet[AcctOrder[i]] # "" /\ mod_attribute_to_element(AcctOrder[i]) # ""
         THEN acct_map(json_object_object_add(obj, mod_attribute_to_element(AcctOrder[i]),
                           mod_value_pair_to_json_object(packet[AcctOrder[i]])),
                       packet, i + 1)
         ELSE acct_map(obj, packet, i + 1)

\* The object with the time stamp of the packet under the name key, when the
\* packet has an Event-Timestamp.
acct_timestamp(obj, key, packet) ==
    IF packet["Event-Timestamp"] # ""
    THEN json_object_object_add(obj, key,
                                mod_value_pair_to_json_object(packet["Event-Timestamp"]))
    ELSE obj

\* The switch on the status type, with the object o in cookie->jobj.
acct_status(tr, o, obj, status, packet) ==
    CASE status = "Start" ->
             acct_store(tr \o <<Use(o)>>, o,
                        acct_map(acct_timestamp(obj, "startTimestamp", packet), packet, 1))
      [] status = "Stop" ->
             acct_store(tr \o <<Use(o)>>, o,
                        acct_map(mod_ensure_start_timestamp(
                                     acct_timestamp(obj, "stopTimestamp", packet), packet),
                                 packet, 1))
      [] status = "Alive" ->
             acct_store(tr \o <<Use(o)>>, o,
                        acct_map(mod_ensure_start_timestamp(obj, packet), packet, 1))
      [] OTHER ->
             ModResult("RLM_MODULE_NOOP", tr \o <<Put(o), ReleaseHandle>>, NoDoc)

\* The document a new object starts with.
acct_new_document(doctype) ==
    json_object_object_add(
        json_object_object_add(
            json_object_object_add(json_object_new_object, "docType", JString(doctype)),
            "startTimestamp", JString("null")),
        "stopTimestamp", JString("null"))

\* mod_accounting from "start json document if needed" on.
acct_document(tr, docfound, doc, status, packet) ==
    IF docfound
    THEN acct_status(tr \o <<Use("fetched")>>, "fetched", doc.doc, status, packet)
    ELSE acct_status(tr \o <<Made("new"), Use("new")>>, "new",
                     acct_new_document("radacct"), status, packet)

\* The check of what couchbase_get_key returned, without the release of the
\* object of a failed fetch.
acct_fetched_leaks(tr, g, doc, status, packet) ==
    IF ~g.cb_ok \/ ~g.jerr_ok
    THEN acct_document(tr \o (IF g.jobj THEN <<Made("fetched")>> ELSE <<>>),
                       FALSE, doc, status, packet)
    ELSE acct_document(tr \o (IF g.jobj THEN <<Made("fetched")>> ELSE <<>>),
                       g.jobj, doc, status, packet)

\* The check of what couchbase_get_key returned: g is its outcome, doc the
\* document of the store under the key.
acct_fetched(tr, g, doc, status, packet) ==
    IF ~g.cb_ok \/ ~g.jerr_ok
    THEN acct_document(tr \o (IF g.jobj THEN <<Made("fetched"), Put("fetched")>> ELSE <<>>),
                       FALSE, doc, status, packet)
    ELSE acct_document(tr \o (IF g.jobj THEN <<Made("fetched")>> ELSE <<>>),
                       g.jobj, doc, status, packet)

\* mod_accounting: status is the Acct-Status-Type of the packet.
mod_accounting(status, conn, cookie, xlat_ok, g, doc, packet) ==
    IF status = "" THEN ModResult("RLM_MODULE_NOOP", <<>>, NoDoc)
    ELSE IF status \in {"Accounting-On", "Accounting-Off"}
         THEN ModResult("RLM_MODULE_OK", <<>>, NoDoc)
    ELSE IF ~conn THEN ModResult("RLM_MODULE_FAIL", <<>>, NoDoc)
    ELSE IF ~cookie THEN ModResult("RLM_MODULE_FAIL", <<GetHandle, ReleaseHandle>>, NoDoc)
    ELSE IF ~xlat_ok THEN ModResult("RLM_MODULE_NOOP", <<GetHandle, ReleaseHandle>>, NoDoc)
    ELSE acct_fetched(<<GetHandle>>, g, doc, status, packet)

----------------------------------------------------------------------------
(* rlm_couchbase: actions *)

ModInstantiate ==
    /\ op = ""
    /\ \E raw \in RawTexts, map_ok \in BOOLEAN, pool_ok \in BOOLEAN, clients \in ClientLoads :
         LET res == mod_instantiate(raw, map_ok, pool_ok, clients)
         IN  /\ op' = "mod_instantiate"
             /\ args' = [server_raw |-> raw, map_ok |-> map_ok, pool_ok |-> pool_ok,
                         clients |-> clients]
             /\ server' = res.server
             /\ rcode' = res.rcode
             \* A write past the end of the array may end the process.
             /\ fault' \in IF res.server.writes \subseteq 0..(res.server.size - 1)
                            THEN {FALSE} ELSE BOOLEAN
    /\ UNCHANGED <<chain, cfg, shape, ndebug, context, vps, vpt, cursor, vp, err, yielded,
                   tmpl, out>>
    /\ UNCHANGED pvars
    /\ UNCHANGED <<trace, stored, written, list_ctx>>

ModAuthorize ==
    /\ op = ""
    /\ \E xlat_ok \in BOOLEAN, conn \in BOOLEAN, cookie \in BOOLEAN, g \in GetOutcomes(stored) :
         LET res == mod_authorize(xlat_ok, conn, cookie, g)
         IN  /\ op' = "mod_authorize"
             /\ args' = [xlat_ok |-> xlat_ok, conn |-> conn, cookie |-> cookie, get |-> g]
             /\ trace' = res.trace
             /\ rcode' = res.rcode
             /\ written' = res.written
    /\ UNCHANGED <<stored, server, list_ctx>>
    /\ UNCHANGED cvars
    /\ UNCHANGED pvars

\* mod_accounting; set_ok tells whether couchbase_set_key stored the
\* document.
ModAccounting ==
    /\ op = ""
    /\ \E status \in StatusTypes, packet \in AcctPackets, xlat_ok \in BOOLEAN,
          conn \in BOOLEAN, cookie \in BOOLEAN, g \in GetOutcomes(stored),
          set_ok \in BOOLEAN :
         LET res == mod_accounting(status, conn, cookie, xlat_ok, g, stored, packet)
         IN  /\ op' = "mod_accounting"
             /\ args' = [status |-> status, packet |-> packet, xlat_ok |-> xlat_ok,
                         conn |-> conn, cookie |-> cookie, get |-> g, set_ok |-> set_ok,
                         stored |-> stored]
             /\ trace' = res.trace
             /\ rcode' = res.rcode
             /\ written' = res.written
             /\ stored' = IF res.written.exists /\ set_ok THEN res.written ELSE stored
    /\ UNCHANGED <<server, list_ctx>>
    /\ UNCHANGED cvars
    /\ UNCHANGED pvars

----------------------------------------------------------------------------
(* Specifications *)

InitCalls ==
    /\ op = ""
    /\ args = NoArgs
    /\ context = 0
    /\ rcode = 0
    /\ vps = NullLoc
    /\ vpt = NoTmpl
    /\ cursor = ZeroCursor
    /\ vp = NullVp
    /\ err = 0
    /\ fault = FALSE
    /\ yielded = <<>>
    /\ out = NullPair
    /\ trace = <<>>
    /\ stored = NoDoc
    /\ written = NoDoc
    /\ server = NoServer
    /\ list_ctx = NullCtx

\* No text has been handed to the parser.
InitNoText ==
    /\ parts = NoParts
    /\ text = <<>>
    /\ pvpt = NoParsed
    /\ pos = 0
    /\ buffer = <<>>

\* The resolver over every request graph, its lists holding at most one
\* attribute.
Init ==
    /\ chain = ChainLen
    /\ cfg \in Configs
    /\ shape \in {<<>>} \cup { <<p>> : p \in Pairs }
    /\ ndebug = TRUE
    /\ tmpl = Tmpl("LITERAL", <<>>)
    /\ InitCalls
    /\ InitNoText

Next == RadiusRequest \/ RadiusList \/ RadiusListCtx \/ TmplCursorInit \/ TmplCursorNext

Spec == Init /\ [][Next]_vars

\* The cursor over every attribute list, in graphs that hold every packet.
CursorConfigs ==
    { c \in Configs : c.proxy /\ c.proxy_reply /\ c.coa /\ c.coa_reply
                      /\ c.coa_code # PW_CODE_UNDEFINED }

InitCursor ==
    /\ chain = CursorChain
    /\ cfg \in CursorConfigs
    /\ shape \in SeqsUpTo(Pairs, MaxLen)
    /\ ndebug = TRUE
    /\ tmpl = Tmpl("LITERAL", <<>>)
    /\ InitCalls
    /\ InitNoText

NextCursor == TmplCursorInit \/ TmplCursorNext \/ TmplFindVp

SpecCursor == InitCursor /\ [][NextCursor]_vars

\* tmpl_copy_vps over every attribute list, in graphs that hold every packet.
NextCopy == TmplCopyVps

SpecCopy == InitCursor /\ [][NextCopy]_vars

\* The caster over every literal, xlat and exec template, in both builds.
InitCast ==
    /\ chain = 1
    /\ cfg \in { c \in Configs : ~c.proxy /\ ~c.coa }
    /\ shape = <<>>
    /\ ndebug \in BOOLEAN
    /\ tmpl \in CastTmpls
    /\ InitCalls
    /\ InitNoText

NextCast == TmplCastInPlace \/ TmplCastToVp

SpecCast == InitCast /\ [][NextCast]_vars

\* The parser and the printer over every text of the grammar.
InitParse ==
    /\ chain = 1
    /\ cfg \in { c \in Configs : ~c.proxy /\ ~c.coa }
    /\ shape = <<>>
    /\ ndebug = TRUE
    /\ tmpl = Tmpl("LITERAL", <<>>)
    /\ InitCalls
    /\ parts \in Parts
    /\ text = Join(parts)
    /\ pvpt = NoParsed
    /\ pos = 0
    /\ buffer = <<>>

NextParse ==
    \/ RadiusListName
    \/ TmplFromAttrSubstr
    \/ TmplFromAttrStr
    \/ TmplAfromStr
    \/ TmplPrints

SpecParse == InitParse /\ [][NextParse]_vars

\* tmpl_afrom_str over every quoted string of plain characters, '%' and
\* backslashes.
InitQuoted ==
    /\ chain = 1
    /\ cfg \in { c \in Configs : ~c.proxy /\ ~c.coa }
    /\ shape = <<>>
    /\ ndebug = TRUE
    /\ tmpl = Tmpl("LITERAL", <<>>)
    /\ InitCalls
    /\ parts = NoParts
    /\ text \in QuotedTexts
    /\ pvpt = NoParsed
    /\ pos = 0
    /\ buffer = <<>>

NextQuoted == TmplAfromStrQuoted

SpecQuoted == InitQuoted /\ [][NextQuoted]_vars

\* mod_instantiate over every raw server string.
InitInstantiate ==
    /\ chain = 1
    /\ cfg \in { c \in Configs : ~c.proxy /\ ~c.coa }
    /\ shape = <<>>
    /\ ndebug = TRUE
    /\ tmpl = Tmpl("LITERAL", <<>>)
    /\ InitCalls
    /\ InitNoText

NextInstantiate == ModInstantiate

SpecInstantiate == InitInstantiate /\ [][NextInstantiate]_vars

\* mod_authorize and mod_accounting over every stored document, packet and
\* outcome of the calls on the pool and on the store.
InitCouchbase ==
    /\ chain = 1
    /\ cfg \in { c \in Configs : ~c.proxy /\ ~c.coa }
    /\ shape = <<>>
    /\ ndebug = TRUE
    /\ tmpl = Tmpl("LITERAL", <<>>)
    /\ op = ""
    /\ args = NoArgs
    /\ context = 0
    /\ rcode = 0
    /\ vps = NullLoc
    /\ vpt = NoTmpl
    /\ cursor = ZeroCursor
    /\ vp = NullVp
    /\ err = 0
    /\ fault = FALSE
    /\ yielded = <<>>
    /\ out = NullPair
    /\ InitNoText
    /\ trace = <<>>
    /\ stored \in StoredDocs
    /\ written = NoDoc
    /\ server = NoServer
    /\ list_ctx = NullCtx

NextCouchbase == ModAuthorize \/ ModAccounting

SpecCouchbase == InitCouchbase /\ [][NextCouchbase]_vars


----------------------------------------------------------------------------
(* Properties of the resolver *)

\* The collection each list selector names on request r.
NamedList(r, list) ==
    CASE list = "request" -> Loc(r, "", "packet")
      [] list = "reply" -> Loc(r, "", "reply")
      [] list = "control" -> Loc(r, "", "config_items")
      [] list = "proxy-request" -> Loc(r, "", "proxy")
      [] list = "proxy-reply" -> Loc(r, "", "proxy_reply")
      [] list = "coa" -> Loc(r, "coa", "proxy")
      [] list = "coa-reply" -> Loc(r, "coa", "proxy_reply")
      [] list = "disconnect" -> Loc(r, "coa", "proxy")
      [] list = "disconnect-reply" -> Loc(r, "coa", "proxy_reply")
      [] OTHER -> NullLoc

\* C1: whenever radius_list returns a collection of the request graph for
\* list selector L on request R, it is the collection L names on R, never
\* the attribute list of another packet.
C1_ListIsTheNamedOne ==
    (op = "radius_list" /\ vps.kind = "list")
        => vps = NamedList(args.request, args.list)

CoaLists == {"coa", "coa-reply", "disconnect", "disconnect-reply"}

ExpectedCode(list) ==
    IF list \in {"coa", "coa-reply"} THEN PW_CODE_COA_REQUEST
    ELSE PW_CODE_DISCONNECT_REQUEST

\* Whether radius_request can resolve the scope of template t from request r.
ScopeResolves(r, t) == t.request = "current" \/ Parent(r) # 0

\* C2: for the coa, coa-reply, disconnect and disconnect-reply selectors
\* radius_list returns a collection only if the request has a CoA
\* sub-request whose proxied packet has the expected code; when the code is
\* another one it returns NULL, and tmpl_cursor_init then reports -2 with no
\* element.
C2_CoaListNeedsMatchingCode ==
    /\ (op = "radius_list" /\ args.list \in CoaLists)
        => /\ vps # NullLoc
                => (args.request # 0 /\ cfg.coa
                    /\ cfg.coa_code = ExpectedCode(args.list))
           /\ cfg.coa_code # ExpectedCode(args.list) => vps = NullLoc
    /\ (op = "tmpl_cursor_init" /\ vpt.list \in CoaLists
        /\ ScopeResolves(args.request, vpt)
        /\ cfg.coa_code # ExpectedCode(vpt.list))
        => (err = -2 /\ vp = NullVp /\ ~fault)

\* C2 witness: the CoA-Reply list asked of a request whose proxied
\* sub-request is a Disconnect-Request: list unavailable.
C2_Witness ==
    /\ op = "tmpl_cursor_init"
    /\ vpt.list = "coa-reply"
    /\ cfg.coa /\ cfg.coa_reply
    /\ cfg.coa_code = PW_CODE_DISCONNECT_REQUEST
    /\ err = -2

\* The indices, in list order, of the elements of the list at loc that match
\* the descriptor and the tag of template t.
MatchingIdx(loc, t) ==
    LET n == Len(Contents(loc))
        Test(i) == Match(Contents(loc)[i], t.da, t.tag)
    IN  SelectSeq([i \in 1..n |-> i], Test)

\* The elements template t denotes in the list at loc, in list order.
Matching(loc, t) ==
    LET idx == MatchingIdx(loc, t)
    IN  [k \in 1..Len(idx) |-> Elem(loc, idx[k])]

\* Whether an element of the list satisfies descriptor, tag and instance.
SomeMatch(loc, t) ==
    IF t.num \in {NUM_ANY, NUM_ALL} THEN Len(Matching(loc, t)) > 0
    ELSE Len(Matching(loc, t)) > t.num

\* C3: tmpl_cursor_init reports exactly one of four outcomes: -3 iff the
\* scope is Parent/Outer and the request has no parent; otherwise -2 iff
\* radius_list yields no collection; otherwise -1 iff the template is an
\* attribute reference and no element satisfies descriptor, tag and
\* instance; otherwise 0.  Whenever the code is not 0 no element is
\* returned.
C3_FourOutcomes ==
    op = "tmpl_cursor_init"
        => LET r == args.request
               target == IF vpt.request = "current" THEN r ELSE Parent(r)
               list == radius_list(target, vpt.list)
               code == IF ~ScopeResolves(r, vpt) THEN -3
                       ELSE IF list = NullLoc THEN -2
                       ELSE IF vpt.type = "ATTR" /\ ~SomeMatch(list, vpt) THEN -1
                       ELSE 0
           IN  /\ ~fault
               /\ err = code
               /\ err # 0 => vp = NullVp

\* C4: radius_request with scope Current returns 0 and leaves the context
\* unchanged; with Parent or Outer it replaces the context by the direct
\* parent of the request, one hop, and returns 0; when the request has no
\* parent it returns -1 and leaves the context unchanged.
C4_ScopeIsOneHop ==
    op = "radius_request"
        => IF args.name = "current"
           THEN rcode = 0 /\ context = args.context
           ELSE IF Parent(args.context) = 0
           THEN rcode = -1 /\ context = args.context
           ELSE rcode = 0 /\ context = Parent(args.context)

\* C4 witness: Outer resolved from a request whose parent itself has a parent.
C4_Witness ==
    /\ op = "radius_request"
    /\ args.name = "outer"
    /\ Parent(Parent(args.context)) # 0
    /\ context = Parent(args.context)
    /\ rcode = 0

----------------------------------------------------------------------------
(* Properties of the cursor *)

\* A cursor of an attribute reference that tmpl_cursor_init has initialised
\* on a list of the graph.
OnList ==
    /\ op \in {"tmpl_cursor_init", "tmpl_cursor_next"}
    /\ vpt.type = "ATTR"
    /\ ~fault
    /\ err \in {0, -1}
    /\ cursor.first.kind = "list"

IsPrefix(s, t) == Len(s) <= Len(t) /\ s = SubSeq(t, 1, Len(s))

\* C5: with instance = ALL, tmpl_cursor_init and the calls of
\* tmpl_cursor_next after it yield the elements whose descriptor and tag
\* match, each once, in collection order: what was yielded so far is a
\* prefix of them, and all of them once a call has returned none.
C5_AllYieldsEveryMatchInOrder ==
    (OnList /\ vpt.num = NUM_ALL)
        => /\ IsPrefix(yielded, Matching(cursor.first, vpt))
           /\ vp = NullVp => yielded = Matching(cursor.first, vpt)
           /\ vp # NullVp => vp = yielded[Len(yielded)]

\* C5 witness: the iteration has ended after yielding two matching elements
\* that an element that does not match separates in the list.
C5_Witness ==
    /\ OnList /\ vpt.num = NUM_ALL
    /\ op = "tmpl_cursor_next"
    /\ vp = NullVp
    /\ Len(yielded) = 2
    /\ yielded[2].idx > yielded[1].idx + 1

\* C6: with a specific instance K, tmpl_cursor_init returns the K-th
\* (0-based) element among those matching descriptor and tag, counted from
\* the start of the collection, and -1 with no element when fewer than K+1
\* match; every later tmpl_cursor_next returns none.
C6_InstanceIsKthMatch ==
    (OnList /\ vpt.num \in 0..MaxNum)
        => LET m == Matching(cursor.first, vpt)
           IN  /\ op = "tmpl_cursor_init"
                    => IF Len(m) >= vpt.num + 1
                       THEN err = 0 /\ vp = m[vpt.num + 1]
                       ELSE err = -1 /\ vp = NullVp
               /\ op = "tmpl_cursor_next" => vp = NullVp

\* C6 witness: instance 1 gave the second of three matching elements, and
\* the next call gave none.
C6_Witness ==
    /\ OnList /\ vpt.num = 1
    /\ op = "tmpl_cursor_next"
    /\ Len(Matching(cursor.first, vpt)) >= 3
    /\ yielded = <<Matching(cursor.first, vpt)[2]>>
    /\ vp = NullVp

\* C7: with instance = ANY, tmpl_cursor_init returns the first element whose
\* descriptor and tag match (-1 and none when there is none), and every
\* later tmpl_cursor_next returns none, also when more matching elements
\* follow.
C7_AnyIsFirstMatchOnly ==
    (OnList /\ vpt.num = NUM_ANY)
        => LET m == Matching(cursor.first, vpt)
           IN  /\ op = "tmpl_cursor_init"
                    => IF Len(m) > 0 THEN err = 0 /\ vp = m[1]
                       ELSE err = -1 /\ vp = NullVp
               /\ op = "tmpl_cursor_next" => (vp = NullVp /\ Len(yielded) <= 1)

\* C7 witness: the first match was returned, more matches follow it, and the
\* next call returned none.
C7_Witness ==
    /\ OnList /\ vpt.num = NUM_ANY
    /\ op = "tmpl_cursor_next"
    /\ Len(Matching(cursor.first, vpt)) >= 2
    /\ yielded = <<Matching(cursor.first, vpt)[1]>>
    /\ vp = NullVp

----------------------------------------------------------------------------
(* Properties of the caster *)

\* C8: tmpl_cast_in_place on a literal returns true exactly when the
\* allocations succeed and the text parses as the target type; the
\* template is then typed data of the target type holding the parsed value
\* and its length, under its old name ("123" as an integer is 123).  When
\* it returns false the template is as it was: a literal, same name, payload
\* all-zero.
C8_CastInPlaceAllOrNothing ==
    op = "tmpl_cast_in_place"
        => LET before == args.vpt
               parsed == pairparsevalue(args.type, before.name)
           IN  /\ (rcode = 1) = (args.vpOk /\ args.dataOk /\ parsed.ok)
               /\ rcode = 1
                    => /\ tmpl.type = "DATA"
                       /\ tmpl.data_type = args.type
                       /\ tmpl.data_value = parsed.data
                       /\ tmpl.data_length = parsed.length
                       /\ tmpl.name = before.name
               /\ (rcode = 1 /\ args.type = "integer"
                   /\ before.name = <<"1", "2", "3">>)
                    => tmpl.data_value.integer = 123
               /\ (args.type = "integer" /\ "a" \in { before.name[i] : i \in 1..Len(before.name) })
                    => rcode = 0
               /\ rcode = 0
                    => /\ tmpl = before
                       /\ tmpl.type = "LITERAL"
                       /\ tmpl.data_type = PW_TYPE_INVALID
                       /\ tmpl.data_value = NullValue
                       /\ tmpl.data_length = 0

\* C8 witness: the text parsed, the pair was allocated, and the allocation
\* of the value failed: false, and the template still the literal it was.
C8_Witness ==
    /\ op = "tmpl_cast_in_place"
    /\ args.vpOk /\ ~args.dataOk
    /\ args.type = "integer"
    /\ args.vpt.name = <<"1", "2", "3">>
    /\ rcode = 0
    /\ tmpl.type = "LITERAL"

\* C9: tmpl_cast_to_vp called with typed data whose type differs from the
\* type of the cast descriptor returns a negative code and writes no
\* attribute to out; it never copies the value into an attribute of the
\* other type.
C9_TypeMismatchIsAnError ==
    (op = "tmpl_cast_to_vp" /\ args.vpt.type = "DATA"
     /\ args.vpt.data_type # args.type)
        => (~fault /\ rcode < 0 /\ out = NullPair)

\* C10: tmpl_cast_to_vp returns either a value or an error: 0 exactly when
\* it has stored a new attribute in out, and a negative code with out none
\* whenever the allocation of the attribute, the run-time expansion or the
\* parsing of the expanded string as the target type fails.
C10_ValueOrError ==
    (op = "tmpl_cast_to_vp" /\ ~fault)
        => LET t == args.vpt
               str == IF t.type = "LITERAL" THEN t.name ELSE args.x.str
               failed == \/ ~args.vpOk
                         \/ /\ t.type # "DATA"
                            /\ (~args.x.ok \/ ~pairparsevalue(args.type, str).ok)
           IN  /\ (rcode = 0) = out.alloc
               /\ failed => (rcode < 0 /\ out = NullPair)

----------------------------------------------------------------------------
(* The grammar parser and the printer *)

\* The call wrote a template to *vpt.
Produced == pvpt # ZeroTmpl /\ pvpt # NoParsed

\* C11: every template tmpl_from_attr_substr produces satisfies the
\* invariants tmpl_verify enforces: its kind is ATTR, ATTR_UNKNOWN or LIST;
\* its tag is in 0..31 or ANY; its instance is in 0..1000, ANY or ALL; a
\* list reference and a verbatim-name unknown reference hold no descriptor;
\* an attribute reference holds the catalogue's descriptor or, for an
\* unknown attribute, a pointer at the placeholder embedded in the template
\* itself, never at the parser's local one.
C11_ParsedTemplateIsValid ==
    (op = "tmpl_from_attr_substr" /\ Produced)
        => /\ pvpt.type \in {"ATTR", "ATTR_UNKNOWN", "LIST"}
           /\ pvpt.tag \in (0..31) \cup {TAG_ANY}
           /\ pvpt.num \in (0..1000) \cup {NUM_ANY, NUM_ALL}
           /\ pvpt.type \in {"LIST", "ATTR_UNKNOWN"} => pvpt.da = NULL_DA
           /\ pvpt.type = "ATTR"
                  => \/ pvpt.da \in DictAttrs
                     \/ pvpt.da = TMPL_UNKNOWN /\ pvpt.fugly.as = "unknown"

C11_Witness ==
    /\ op = "tmpl_from_attr_substr"
    /\ rcode > 0
    /\ pvpt.type = "ATTR"
    /\ pvpt.da = TMPL_UNKNOWN
    /\ pvpt.num = 1000

\* The canonical print form of a reference: the '&', the request reference
\* and the list written only when they differ from current and request, the
\* list under its canonical name, a tag only on an attribute that takes one,
\* and an index that the grammar admits.
Canonical(ps) ==
    /\ ps.sigil = <<"&">>
    /\ ps.ref \in {<<>>, <<"o", "u", "t", "e", "r", ".">>}
    /\ ps.list \in {<<>>, <<"r", "e", "p", "l", "y", ":">>}
    /\ ps.name \in {<<"U", "s", "e", "r", "-", "N", "a", "m", "e">>, <<"T", "u", "n", "n", "e", "l", "-", "T", "y", "p", "e">>, <<"A", "t", "t", "r", "-", "2", "6">>}
    /\ ps.tag \in {<<>>, <<":", "0">>, <<":", "3", "1">>}
    /\ ps.tag # <<>> => ps.name = <<"T", "u", "n", "n", "e", "l", "-", "T", "y", "p", "e">>
    /\ ps.index \in {<<>>, <<"[", "0", "]">>, <<"[", "1", "0", "0", "0", "]">>, <<"[", "*", "]">>}

DefaultQualifiers == args.request_def = "current" /\ args.list_def = "request"

\* C12: for every canonical reference S, printing the template parsed from S
\* gives S back.
C12_RoundTrip ==
    (op = "tmpl_prints" /\ Canonical(parts) /\ DefaultQualifiers) => buffer = text

\* The text is a tag-capable attribute name and a tag, after an optional '&'.
NameAndTag ==
    /\ parts.ref = <<>>
    /\ parts.list = <<>>
    /\ parts.name = <<"T", "u", "n", "n", "e", "l", "-", "T", "y", "p", "e">>
    /\ parts.tag # <<>>
    /\ parts.index = <<>>
\* The offset of the character after the colon.
TagOffset == Len(parts.sigil) + Len(parts.name) + 1

\* C13: for 'name:N' with a tag-capable name, 0 <= N <= 31 parses with tag N,
\* and N = 32 or N = -1 fails with the offset of the tag as the error offset.
C13_TagRange ==
    (op = "tmpl_from_attr_substr" /\ NameAndTag)
        => /\ parts.tag = <<":", "0">> => (rcode > 0 /\ pvpt.tag = 0)
           /\ parts.tag = <<":", "3", "1">> => (rcode > 0 /\ pvpt.tag = 31)
           /\ parts.tag \in {<<":", "3", "2">>, <<":", "-", "1">>}
                  => (rcode = 0 - TagOffset /\ ~Produced)

\* The text is an attribute name and what follows it, after an optional '&'.
NameAndIndex ==
    /\ parts.ref = <<>>
    /\ parts.list = <<>>
    /\ parts.name \in {<<"U", "s", "e", "r", "-", "N", "a", "m", "e">>, <<"T", "u", "n", "n", "e", "l", "-", "T", "y", "p", "e">>, <<"A", "t", "t", "r", "-", "2", "6">>}
    /\ parts.tag = <<>>

\* C14: 'name[K]' with 0 <= K <= 1000 parses with instance K; K = 1001, a
\* negative K, no digits and a missing ']' fail with a non-positive offset;
\* 'name[*]' gives ALL and a name without '[' gives ANY.
C14_IndexRange ==
    (op = "tmpl_from_attr_substr" /\ NameAndIndex)
        => /\ parts.index \in {<<"[", "0", "]">>, <<"[", "0", "]", "!">>} => (rcode > 0 /\ pvpt.num = 0)
           /\ parts.index = <<"[", "1", "0", "0", "0", "]">> => (rcode > 0 /\ pvpt.num = 1000)
           /\ parts.index \in {<<"[", "1", "0", "0", "1", "]">>, <<"[", "-", "1", "]">>, <<"[", "]">>, <<"[", "1">>}
                  => (rcode <= 0 /\ ~Produced)
           /\ parts.index = <<"[", "*", "]">> => (rcode > 0 /\ pvpt.num = NUM_ALL)
           /\ parts.index \in {<<>>, <<"!">>} => (rcode > 0 /\ pvpt.num = NUM_ANY)

C14_Witness ==
    /\ op = "tmpl_from_attr_substr"
    /\ NameAndIndex
    /\ parts.index = <<"[", "1", "0", "0", "1", "]">>
    /\ rcode < 0
    /\ ~Produced

\* The first colon at or after offset o of s, -1 when there is none.
FirstColon(s, o) ==
    IF \E i \in o..(Len(s) - 1) : s[i + 1] = ":"
    THEN CHOOSE i \in o..(Len(s) - 1) :
             s[i + 1] = ":" /\ \A j \in o..(i - 1) : s[j + 1] # ":"
    ELSE -1
\* One or more digits follow the first colon, and the end of the text or a
\* '[' follows the digits.
TagColon(s, o) ==
    LET q == FirstColon(s, o)
    IN  /\ q # -1
        /\ \E e \in (q + 2)..Len(s) :
               /\ \A i \in (q + 1)..(e - 1) : s[i + 1] \in DigitChars
               /\ (e = Len(s) \/ s[e + 1] = "[")

\* C15: when one or more digits follow the first colon, and the end of the
\* text or '[' follows them, radius_list_name takes the colon for a tag
\* separator: it returns the caller's default list and consumes nothing,
\* whatever the text before the colon is.
C15_TagColonIsNoList ==
    (op = "radius_list_name" /\ TagColon(text, args.name))
        => (rcode = args.default_list /\ pos = args.name)

C15_Witness ==
    /\ op = "radius_list_name"
    /\ TagColon(text, args.name)
    /\ Sub(text, args.name, FirstColon(text, args.name)) = <<"r", "e", "p", "l", "y">>
    /\ args.default_list = "request"
    /\ rcode = "request"
    /\ pos = args.name

\* The text is a list name, with or without its colon, after an optional '&'
\* and an optional request reference.
OnlyQualifiers ==
    /\ parts.list \in {<<"r", "e", "q", "u", "e", "s", "t", ":">>, <<"r", "e", "p", "l", "y", ":">>, <<"c", "o", "n", "f", "i", "g", ":">>, <<"r", "e", "p", "l", "y">>}
    /\ parts.name = <<>>
    /\ parts.tag = <<>>
    /\ parts.index = <<>>
\* The request and the list the qualifiers of the text name.
NamedRequest ==
    CASE parts.ref = <<"o", "u", "t", "e", "r", ".">> -> "outer"
      [] parts.ref = <<"c", "u", "r", "r", "e", "n", "t", ".">> -> "current"
      [] OTHER -> args.request_def
NamedPairList ==
    CASE parts.list = <<"r", "e", "q", "u", "e", "s", "t", ":">> -> "request"
      [] parts.list \in {<<"r", "e", "p", "l", "y", ":">>, <<"r", "e", "p", "l", "y">>} -> "reply"
      [] parts.list = <<"c", "o", "n", "f", "i", "g", ":">> -> "control"
      [] OTHER -> args.list_def

\* C16: a text of qualifiers only parses, with tmpl_from_attr_str, into a
\* list reference that carries the request and the list it names and no
\* descriptor, the whole text being consumed.
C16_QualifiersOnlyIsAList ==
    (op = "tmpl_from_attr_str" /\ OnlyQualifiers)
        => /\ rcode = Len(text)
           /\ pvpt.type = "LIST"
           /\ pvpt.request = NamedRequest
           /\ pvpt.list = NamedPairList
           /\ pvpt.da = NULL_DA

C16_Witness ==
    /\ op = "tmpl_from_attr_str"
    /\ OnlyQualifiers
    /\ parts.sigil = <<"&">>
    /\ parts.ref = <<"o", "u", "t", "e", "r", ".">>
    /\ parts.list = <<"r", "e", "p", "l", "y">>
    /\ args.list_def = "request"
    /\ pvpt.type = "LIST"
    /\ pvpt.request = "outer"
    /\ pvpt.list = "reply"
    /\ rcode = Len(text)

\* The qualifiers of the text parse, and its name is neither a name of the
\* catalogue nor the numeric encoding of an unknown attribute.
ValidQualifiers == parts.list \in {<<>>, <<"r", "e", "q", "u", "e", "s", "t", ":">>, <<"r", "e", "p", "l", "y", ":">>, <<"c", "o", "n", "f", "i", "g", ":">>}
UnmatchedName == parts.name \in {<<"f", "o", "o">>, LongName}
NameOffset == Len(parts.sigil) + Len(parts.ref) + Len(parts.list)

NoSuffixError ==
    /\ parts.tag = <<>>
    /\ parts.index \in {<<>>, <<"[", "0", "]">>, <<"[", "1", "0", "0", "0", "]">>, <<"[", "*", "]">>, <<"!">>, <<"[", "0", "]", "!">>}

UnmatchedBareWord ==
    /\ parts.sigil = <<>>
    /\ ValidQualifiers
    /\ UnmatchedName
    /\ parts.tag # <<":", "-", "1">>

\* C18 as the specification states it: without a '&', a name that is neither
\* in the catalogue nor numeric makes tmpl_from_attr_substr return 0, also
\* after a request reference or a list qualifier, and tmpl_afrom_str makes a
\* literal of the whole bare word.
C18_BareWordReturnsZero ==
    /\ (op = "tmpl_from_attr_substr" /\ UnmatchedBareWord) => rcode = 0
    /\ (op = "tmpl_afrom_str" /\ UnmatchedBareWord)
           => (pvpt.type = "LITERAL" /\ pvpt.name = text)

\* C18, amended: without a '&', such a name makes tmpl_from_attr_substr
\* return the negated offset of the name and write no template: 0 when no
\* qualifier stands before the name, negative after a request reference or a
\* list qualifier.  tmpl_afrom_str makes a literal of the whole bare word in
\* both cases.
C18_BareWordReturnsNameOffset ==
    /\ (op = "tmpl_from_attr_substr" /\ UnmatchedBareWord)
           => (rcode = 0 - NameOffset /\ ~Produced)
    /\ (op = "tmpl_afrom_str" /\ UnmatchedBareWord)
           => (pvpt.type = "LITERAL" /\ pvpt.name = text /\ rcode = Len(text))

C18_Witness ==
    /\ op = "tmpl_afrom_str"
    /\ UnmatchedBareWord
    /\ parts.ref = <<"o", "u", "t", "e", "r", ".">>
    /\ parts.list = <<"r", "e", "p", "l", "y", ":">>
    /\ tmpl_from_attr_substr(text, args.request_def, args.list_def).slen = 0 - NameOffset
    /\ NameOffset > 0
    /\ pvpt.type = "LITERAL"
    /\ pvpt.name = text

\* C19: the return value of tmpl_from_attr_substr tells success from failure
\* for every text, the empty one included: it is positive exactly when a
\* template was produced, and on a failure it is the negated offset where the
\* parse stopped, an offset of the text.
C19_ReturnTellsSuccess ==
    op = "tmpl_from_attr_substr"
        => /\ (rcode > 0) = Produced
           /\ rcode > 0 => rcode \in 1..Len(text)
           /\ rcode <= 0 => (0 - rcode) \in 0..Len(text)

----------------------------------------------------------------------------
(* tmpl_find_vp *)

\* C20: tmpl_find_vp returns 0 exactly when it writes an existing attribute
\* to out, and -1 whenever the scope and the list resolve but no attribute is
\* found, for attribute and list templates alike, a list reference over an
\* empty list included.
C20_FindVpZeroIffFound ==
    (op = "tmpl_find_vp" /\ ~fault)
        => /\ (rcode = 0) = (vp # NullVp)
           /\ (vp = NullVp /\ rcode \notin {-3, -2}) => rcode = -1

----------------------------------------------------------------------------
(* tmpl_copy_vps *)

\* The elements that tmpl_cursor_init and the calls of tmpl_cursor_next after
\* it yield: v is the element the cursor c returned last.
RECURSIVE Yields(_, _, _)
Yields(c, v, t) ==
    IF v = NullVp THEN <<>>
    ELSE LET nx == tmpl_cursor_next(c, t)
         IN  <<v>> \o Yields(nx.cursor, nx.vp, t)
YieldedFor(r, t, wild) ==
    LET init == tmpl_cursor_init(r, t, wild)
    IN  Yields(init.cursor, init.vp, t)

----------------------------------------------------------------------------
(* tmpl_from_attr_substr: the template after an error *)

\* C22: whenever tmpl_from_attr_substr returns an error (a return value that
\* is not positive), the caller's template is all-zero: no type, no name, no
\* request reference, list, descriptor, tag or index.
C22_ErrorLeavesZeroTemplate ==
    (op = "tmpl_from_attr_substr" /\ rcode <= 0) => pvpt = ZeroTmpl

----------------------------------------------------------------------------
(* tmpl_afrom_str: double-quoted strings *)

\* The number of backslashes that stand in a row just before the i-th
\* character of s.
RECURSIVE BackslashesBefore(_, _)
BackslashesBefore(s, i) ==
    IF i > 1 /\ s[i - 1] = "\\" THEN 1 + BackslashesBefore(s, i - 1) ELSE 0

\* The string holds a '%' that no backslash escapes: the backslashes before
\* it pair up as escaped backslashes.
NeedsExpansion(s) ==
    \E i \in 1..Len(s) : s[i] = "%" /\ BackslashesBefore(s, i) % 2 = 0

\* The string ends in a backslash that escapes nothing.
EndsInLoneBackslash(s) ==
    BackslashesBefore(s, Len(s) + 1) % 2 = 1

DoubleQuoted == op = "tmpl_afrom_str" /\ args.type = "T_DOUBLE_QUOTED_STRING"

\* C23: tmpl_afrom_str makes an Xlat template of a double-quoted string if
\* and only if the string holds a '%' that no backslash escapes, and a
\* Literal template of every other double-quoted string.
C23_XlatIffUnescapedPercent ==
    DoubleQuoted
        => /\ pvpt.type \in {"XLAT", "LITERAL"}
           /\ pvpt.type = "XLAT" <=> NeedsExpansion(text)

----------------------------------------------------------------------------
(* rlm_couchbase *)

\* The request supplies a new value for the element: a mapped attribute of
\* the packet, or a start or stop time stamp.
Supplies(packet, e) ==
    \/ \E a \in AcctAttrs : packet[a] # "" /\ mod_attribute_to_element(a) = e
    \/ e \in {"startTimestamp", "stopTimestamp"}

\* C24: for every accounting Start, Stop or Interim request whose document
\* key has a stored document, the document that mod_accounting hands to
\* couchbase_set_key is the stored document merged with the new data: every
\* element of the stored document is kept, but for those the request supplies
\* a new value for.
C24_WrittenKeepsStoredElements ==
    (/\ op = "mod_accounting"
     /\ args.status \in {"Start", "Stop", "Alive"}
     /\ args.stored.exists
     /\ written.exists)
        => \A e \in Elements :
               args.stored.doc[e] # Absent
                   => \/ written.doc[e] = args.stored.doc[e]
                      \/ Supplies(args.packet, e)

\* The indexes of the trace that hold the event.
At(ev) == { i \in 1..Len(trace) : trace[i] = ev }

\* The handle is released once after it was obtained, and never otherwise.
HandleReleasedOnce ==
    /\ Cardinality(At(GetHandle)) <= 1
    /\ Cardinality(At(ReleaseHandle)) = Cardinality(At(GetHandle))
    /\ \A i \in At(GetHandle), j \in At(ReleaseHandle) : i < j
    /\ At(ReleaseHandle) # {} => trace[Len(trace)] = ReleaseHandle

\* An object that the cookie held is released once, and neither used nor
\* released but between its making and its release.
ObjectReleasedOnce(o) ==
    /\ Cardinality(At(Made(o))) <= 1
    /\ Cardinality(At(Put(o))) = Cardinality(At(Made(o)))
    /\ \A i \in At(Made(o)), j \in At(Put(o)) : i < j
    /\ \A u \in At(Use(o)) :
           /\ \E i \in At(Made(o)) : i < u
           /\ \A j \in At(Put(o)) : u < j

\* C25: on every return path of mod_authorize and of mod_accounting, a handle
\* obtained from fr_connection_get is released exactly once before the
\* return, nothing is released when no handle was obtained, and each JSON
\* object held in the cookie is released exactly once and not used after its
\* release.
C25_HandleAndObjectReleasedOnce ==
    op \in {"mod_authorize", "mod_accounting"}
        => /\ HandleReleasedOnce
           /\ ObjectReleasedOnce("fetched")
           /\ ObjectReleasedOnce("new")
           /\ (~args.conn => At(ReleaseHandle) = {})

\* C25 witness: mod_accounting releases the object of a failed fetch, then
\* makes, uses and releases a new one, and releases its handle.
C25_Witness ==
    /\ op = "mod_accounting"
    /\ At(Put("fetched")) # {}
    /\ At(Put("new")) # {}
    /\ At(ReleaseHandle) # {}
    /\ rcode = "RLM_MODULE_OK"

\* C26: the normalisation of the raw server string in mod_instantiate writes
\* only inside the array it allocated, whose size is the length of the raw
\* string with its terminator.
C26_WritesInsideTheArray ==
    op = "mod_instantiate"
        => /\ server.size = Len(args.server_raw) + 1
           /\ server.writes \subseteq 0..(server.size - 1)

----------------------------------------------------------------------------
(* radius_list and radius_list_ctx *)

\* C27: radius_list and radius_list_ctx agree on availability: for every
\* request and every list selector radius_list returns a list if and only if
\* radius_list_ctx returns a context that is not NULL, so that no list is
\* handed out for a packet that is absent.
C27_ListIffContext ==
    op = "radius_list_ctx"
        => (radius_list(args.request, args.list) # NullLoc <=> list_ctx # NullCtx)

====
